---- MODULE Spec2Model ----
(***************************************************************************)
(* SNSPP (semismooth Newton stochastic proximal point) of snspp:           *)
(* the outer driver stochastic_prox_point and the general subproblem       *)
(* solver solve_subproblem of src/snspp/solver/spp_solver.py, on the       *)
(* squared loss and the 1-norm regularizer of src/lasso.py.                *)
(*                                                                         *)
(* Reals are fixed-point integers: a value v stands for v / SC.  Sums are  *)
(* exact, products and quotients are rounded to the nearest unit, the way  *)
(* a float64 operation rounds its result.  The values of the subproblem    *)
(* objective U (fstar, moreau, Ueval) stand for v / (SC * SC), the entries *)
(* of the Newton matrix for v / WS.  Parameters that are only compared     *)
(* (tol, mu, eta, tau, rho) and the step length beta are exact fractions   *)
(* <<p, q>>.                                                               *)
(***************************************************************************)
EXTENDS Integers, Sequences, FiniteSets, TLC

\* ------------------------------------------------------------------------
\* bounds of the model
\* ------------------------------------------------------------------------

\* largest params['max_iter'] a caller passes
MaxIter == 3

\* resolution of the fixed-point reals: one unit is 1/SC
SC == 4000

\* the number of shrinks of beta no backtracking loop exceeds at this resolution
MaxShrink == 20

\* ------------------------------------------------------------------------
\* arithmetic
\* ------------------------------------------------------------------------

Abs(a) == IF a < 0 THEN -a ELSE a

Max2(a, b) == IF a >= b THEN a ELSE b

\* a / b rounded to the nearest integer (ties upwards), for b > 0
RDiv(a, b) == (a + b \div 2) \div b

\* product of two fixed-point reals
FMul(a, b) == (a \div SC) * b + RDiv((a % SC) * b, SC)

\* quotient of two fixed-point reals
FDiv(a, b) == RDiv(a * SC, b)

\* the fraction p/q as a fixed-point real
Fix(fr) == RDiv(fr[1] * SC, fr[2])

\* extended fractions <<p, q>>, q > 0, with Inf for +infinity
Inf == <<1, 0>>

IsInf(fr) == fr[2] = 0

\* a <= b and a > b as the floats compare
FrLe(a, b) ==
    IF IsInf(b) THEN TRUE
    ELSE IF IsInf(a) THEN FALSE
    ELSE a[1] * b[2] <= b[1] * a[2]

FrGt(a, b) == ~FrLe(a, b)

FrLt(a, b) == FrLe(a, b) /\ ~FrLe(b, a)

\* ------------------------------------------------------------------------
\* vectors (sequences of fixed-point reals) and integer matrices
\* ------------------------------------------------------------------------

RECURSIVE SumSeq(_)
SumSeq(s) == IF s = <<>> THEN 0 ELSE Head(s) + SumSeq(Tail(s))

Last(sq) == sq[Len(sq)]

Dot(u, v) == SumSeq([k \in 1..Len(u) |-> u[k] * v[k]])

VAdd(u, v) == [k \in 1..Len(u) |-> u[k] + v[k]]

VSub(u, v) == [k \in 1..Len(u) |-> u[k] - v[k]]

\* M @ v for a matrix M with integer entries (rows of length Len(v))
MatVec(M, v) == [r \in 1..Len(M) |-> Dot(M[r], v)]

\* M.T @ v for a matrix M with integer entries (Len(M) = Len(v)), ncol columns
MatTVec(M, v, ncol) ==
    [c \in 1..ncol |-> SumSeq([r \in 1..Len(M) |-> M[r][c] * v[r]])]

\* np.linalg.norm(v, 1)
Norm1Of(v) == SumSeq([k \in 1..Len(v) |-> Abs(v[k])])

\* ------------------------------------------------------------------------
\* the loss object f: a record [name, convex, easy, A, b, gamma, H] with one
\* row of A per sample (all m[i] = 1; sample i in 0..N-1 owns row i + 1)
\*   A      rows of the design matrix, integer entries
\*   b      targets, fixed-point
\*   easy   f has a callable fstar_vec (the driver takes the fast path, whose
\*          solver takes the steps of solve_subproblem on the same dual)
\*   gamma  the weak-convexity constant weak_conv returns
\*   H      the value Hstar returns for a loss the caller wrote
\* ------------------------------------------------------------------------

NofF(f) == Len(f.A)

NCols(f) == Len(f.A[1])

\* squared loss: f_i(z) = |z - b_i|^2
lsq_g(f, z, i) == 2 * (z - f.b[i + 1])

\* fstar, at scale SC * SC
lsq_fstar(f, x, i) == RDiv(x * x, 4) + f.b[i + 1] * x

lsq_gstar(f, x, i) == RDiv(x, 2) + f.b[i + 1]

\* Hstar, a fraction
lsq_Hstar(f, x, i) == <<1, 2>>

\* a weakly convex loss f_i(z) = -|z - b_i|^2 / 8 with weak_conv = 1; its
\* conjugate pair is that of f_i + (gamma/2) |z|^2 = (3/8) z^2 + (b/4) z - b^2/8
wcvx_g(f, z, i) == RDiv(f.b[i + 1] - z, 4)

wcvx_fstar(f, x, i) ==
    RDiv(2 * (x - RDiv(f.b[i + 1], 4)) * (x - RDiv(f.b[i + 1], 4)), 3)
        + RDiv(f.b[i + 1] * f.b[i + 1], 8)

wcvx_gstar(f, x, i) == RDiv(4 * x - f.b[i + 1], 3)

wcvx_Hstar(f, x, i) == <<4, 3>>

weak_conv(f, i) == f.gamma

\* logistic loss on the solver's fixed-point reals: the dual x is a whole
\* number of units of 1/SC, a = -x; logarithms are kept in units of
\* 1/(100 * SC)
RECURSIVE Log2Floor(_)
Log2Floor(n) == IF n < 2 THEN 0 ELSE 1 + Log2Floor(n \div 2)

RECURSIVE TwoPow(_)
TwoPow(k) == IF k = 0 THEN 1 ELSE 2 * TwoPow(k - 1)

\* the resolution of the argument of the series of the logarithm
LnRes == 30 * SC

\* np.log(n) for a whole number n >= 1: n = 2^k * m with m in [1, 2),
\* log m = 2 * artanh((m - 1) / (m + 1)) by its series
LnQ(n) ==
    LET k   == Log2Floor(n)
        pw  == TwoPow(k)
        Y   == RDiv((n - pw) * LnRes, n + pw)
        Y2  == RDiv(Y * Y, LnRes)
        t3  == RDiv(Y * Y2, LnRes)
        t5  == RDiv(t3 * Y2, LnRes)
        t7  == RDiv(t5 * Y2, LnRes)
        t9  == RDiv(t7 * Y2, LnRes)
        t11 == RDiv(t9 * Y2, LnRes)
        T   == Y + RDiv(t3, 3) + RDiv(t5, 5) + RDiv(t7, 7) + RDiv(t9, 9) + RDiv(t11, 11)
    IN  k * (69 * SC + RDiv(3147 * SC, 10000)) + RDiv(T * 2 * SC, LnRes \div 100)

\* np.log(n / SC), in units of 1/(100 * SC)
LnOf(n) == LnQ(n) - LnQ(SC)

\* np.inf as a value of fstar and of U
PosInf == 2000000000

\* the surrogate 1e8 of gstar and Hstar at the ends of the domain
Surrogate == 100000000

\* fstar that takes the ends of the domain for every point outside it
logistic_fix_fstar_open(x) ==
    IF x >= 0 \/ x <= -SC THEN 0
    ELSE RDiv((-x) * LnOf(-x) + (SC + x) * LnOf(SC + x), 100)

\* logistic_loss.fstar, at scale SC * SC: inf outside [-1, 0], 0 at the ends,
\* else -x log(-x) + (1 + x) log(1 + x)
logistic_fix_fstar(x) ==
    IF x > 0 \/ x < -SC THEN PosInf
    ELSE IF x = 0 \/ x = -SC THEN 0
    ELSE RDiv((-x) * LnOf(-x) + (SC + x) * LnOf(SC + x), 100)

\* logistic_loss.gstar: inf outside [-1, 0], sign(x + .5) * 1e8 at the ends,
\* else log(-(1 + x) / x)
logistic_fix_gstar(x) ==
    IF x > 0 \/ x < -SC THEN PosInf
    ELSE IF x = 0 \/ x = -SC THEN (IF 2 * x + SC > 0 THEN 1 ELSE -1) * Surrogate * SC
    ELSE RDiv(LnOf(SC + x) - LnOf(-x), 100)

\* logistic_loss.Hstar, a fraction: inf outside [-1, 0], 1e8 at the ends, else
\* -1 / (x^2 + x)
logistic_fix_Hstar(x) ==
    IF x > 0 \/ x < -SC THEN <<1, 0>>
    ELSE IF x = 0 \/ x = -SC THEN <<Surrogate, 1>>
    ELSE <<RDiv(50 * SC * SC, (-x) * (SC + x)), 50>>

g(f, z, i) == IF f.convex THEN lsq_g(f, z, i) ELSE wcvx_g(f, z, i)

fstar(f, x, i) ==
    IF f.name = "logistic" THEN logistic_fix_fstar(x)
    ELSE IF f.convex THEN lsq_fstar(f, x, i) ELSE wcvx_fstar(f, x, i)

gstar(f, x, i) ==
    IF f.name = "logistic" THEN logistic_fix_gstar(x)
    ELSE IF f.convex THEN lsq_gstar(f, x, i) ELSE wcvx_gstar(f, x, i)

\* f.Hstar: a loss object a caller wrote ("user") returns the curvature f.H,
\* which solve_subproblem uses unchecked
Hstar(f, x, i) ==
    IF f.name = "squared" THEN lsq_Hstar(f, x, i)
    ELSE IF f.name = "wcvx" THEN wcvx_Hstar(f, x, i)
    ELSE IF f.name = "logistic" THEN logistic_fix_Hstar(x)
    ELSE f.H

\* f.eval(x) = (1/N) * sum_i f_i(A_i x)
f_eval(f, x) ==
    LET r  == VSub(MatVec(f.A, x), f.b)
        sq == RDiv(Dot(r, r), SC)
    IN  IF f.convex THEN RDiv(sq, NofF(f)) ELSE -RDiv(sq, 8 * NofF(f))

\* ------------------------------------------------------------------------
\* the regularizer phi = lambda1 * ||x||_1: a record [name, lambda1]
\* ------------------------------------------------------------------------

phi_eval(phi, x) == FMul(phi.lambda1, Norm1Of(x))

\* v where |v| > l, else 0: the jump of hard thresholding
HardThreshold(v, l) == IF v > l \/ v < -l THEN v ELSE 0

\* sign(v) * max(|v| - l, 0)
SoftThreshold(v, l) == IF v > l THEN v - l ELSE IF v < -l THEN v + l ELSE 0

\* prox_{alpha*phi}(x): soft-thresholding at l = alpha * lambda1
prox(phi, x, alpha) ==
    LET l == FMul(alpha, phi.lambda1)
    IN  [k \in 1..Len(x) |-> SoftThreshold(x[k], l)]

\* the 0/1 diagonal of the Jacobian of prox
jacobian_prox(phi, x, alpha) ==
    LET l == FMul(alpha, phi.lambda1)
    IN  [k \in 1..Len(x) |-> IF Abs(x[k]) > l THEN 1 ELSE 0]

\* alpha * phi(z) + .5 * ||z - x||^2 at z = prox(x, alpha), at scale SC * SC
moreau(phi, x, alpha) ==
    LET z  == prox(phi, x, alpha)
        dv == VSub(z, x)
    IN  FMul(alpha, phi.lambda1) * Norm1Of(z) + RDiv(Dot(dv, dv), 2)

\* ------------------------------------------------------------------------
\* solve_subproblem: the pieces of one semismooth Newton step
\* ------------------------------------------------------------------------

\* eps_reg = 1e-4, the regularisation added to the diagonal of the Newton matrix
eps_reg == <<1, 10000>>

\* resolution of the entries of the Newton matrix W: one unit is 1/WS = eps_reg
WS == 10000

\* (alpha / s) * v
AlphaOver(alpha, s, v) == [k \in 1..Len(v) |-> RDiv(alpha * v[k], s * SC)]

\* subA = A[S, :]
SubA(f, S) == [l \in 1..Len(S) |-> f.A[S[l] + 1]]

\* np.hstack([xi[i] for i in S])
Stack(xi, S) == [l \in 1..Len(S) |-> xi[S[l]]]

AllSamples(f) == [i \in 1..NofF(f) |-> i - 1]

\* the variance-reduction and weak-convexity correction hat_d
HatD(f, x, alpha, S, subA, reduce_variance, xi_tilde) ==
    LET s    == Len(S)
        n    == NCols(f)
        zero == [k \in 1..n |-> 0]
        vr   == IF reduce_variance
                THEN VSub(AlphaOver(alpha, s, MatTVec(subA, Stack(xi_tilde, S), n)),
                          AlphaOver(alpha, NofF(f),
                                    MatTVec(f.A, Stack(xi_tilde, AllSamples(f)), n)))
                ELSE zero
        ax   == MatVec(subA, x)
        gam  == [l \in 1..s |-> FMul(weak_conv(f, S[l]), ax[l])]
        wc   == IF ~f.convex THEN AlphaOver(alpha, s, MatTVec(subA, gam, n)) ELSE zero
    IN  VAdd(vr, wc)

\* z = x - (alpha/sample_size) * (subA.T @ xi_stack) + hat_d
Zof(x, alpha, subA, xi_stack, hat_d) ==
    LET v == MatTVec(subA, xi_stack, Len(x))
        s == Len(subA)
    IN  [k \in 1..Len(x) |-> x[k] - RDiv(alpha * v[k], s * SC) + hat_d[k]]

\* rhs = -(hstack([gstar(xi[i], i) for i in S]) - subA @ prox(z, alpha))
Rhs(f, phi, alpha, S, subA, xi, z) ==
    LET pz == prox(phi, z, alpha)
    IN  [l \in 1..Len(S) |-> Dot(subA[l], pz) - gstar(f, xi[S[l]], S[l])]

\* t * num / den, rounded once (the quotient and the remainder of t scaled apart)
ScaleBy(t, num, den) == (t \div den) * num + RDiv((t % den) * num, den)

\* the objective U of the subproblem at xi_stack, at scale SC * SC
Ueval(xi_stack, f, phi, x, alpha, S, subA, hat_d) ==
    LET s     == Len(S)
        z     == Zof(x, alpha, subA, xi_stack, hat_d)
        term2 == RDiv(Dot(z, z), 2) - moreau(phi, z, alpha)
        fs    == [l \in 1..s |-> fstar(f, xi_stack[l], S[l])]
        term1 == SumSeq(fs)
    IN  IF \E l \in 1..s : fs[l] = PosInf THEN PosInf
        ELSE term1 + ScaleBy(term2, s * SC, alpha)

\* W = tmp + tmp2, entries at scale WS:
\*   tmp  = diag(Hstar + eps_reg)
\*   tmp2 = (alpha/sample_size) * subA_d @ subA_d.T, subA_d the active columns
NewtonW(f, phi, alpha, S, subA, xi, z) ==
    LET U == jacobian_prox(phi, z, alpha)
        M == Len(S)
        G(r, c) == SumSeq([k \in 1..Len(z) |-> U[k] * subA[r][k] * subA[c][k]])
        H(r) == Hstar(f, xi[S[r]], S[r])
    IN  [r \in 1..M |-> [c \in 1..M |->
            (IF r = c THEN RDiv(H(r)[1] * WS, H(r)[2]) + RDiv(eps_reg[1] * WS, eps_reg[2])
                      ELSE 0)
            + RDiv(alpha * WS * G(r, c), M * SC)]]

\* a / b rounded to the nearest integer, for b of either sign
SDiv(a, b) == IF b > 0 THEN RDiv(a, b) ELSE -RDiv(a, -b)

\* d with W d = rhs, as cg(W, rhs, tol = cg_tol, maxiter = cg_max_iter, M = precond)
\* returns it once converged (systems of dimension 1 and 2)
cg(W, rhs) ==
    IF Len(rhs) = 1 THEN <<SDiv(rhs[1] * WS, W[1][1])>>
    ELSE LET det == RDiv(W[1][1] * W[2][2] - W[1][2] * W[2][1], WS)
         IN  << SDiv(W[2][2] * rhs[1] - W[1][2] * rhs[2], det),
                SDiv(W[1][1] * rhs[2] - W[2][1] * rhs[1], det) >>

\* xi_stack + beta * d with beta = bn / bd
StepTo(xi_stack, beta, d) ==
    [k \in 1..Len(d) |-> xi_stack[k] + RDiv(beta[1] * d[k], beta[2])]

\* the bound with the slope d @ rhs, of the opposite sign
ArmijoBoundFlipped(U_old, mu, beta, d, rhs) ==
    U_old + RDiv(mu[1] * beta[1] * Dot(d, rhs), mu[2] * beta[2])

\* U_old + mu * beta * (d @ -rhs), at scale SC * SC
ArmijoBound(U_old, mu, beta, d, rhs) ==
    U_old + RDiv(mu[1] * beta[1] * (-Dot(d, rhs)), mu[2] * beta[2])

\* the k with q^k = n
RECURSIVE LogInt(_, _)
LogInt(n, q) == IF n <= 1 THEN 0 ELSE 1 + LogInt(n \div q, q)

\* np.log(beta) / np.log(rho) for beta a power of rho
LogRatio(beta, rho) == LogInt(beta[2], rho[2])

\* the write-back that also clears the blocks of the samples outside S
WriteBackAll(S, xi, xi_stack) ==
    [i \in DOMAIN xi |->
        IF \E l \in 1..Len(S) : S[l] = i
        THEN xi_stack[CHOOSE l \in 1..Len(S) : S[l] = i /\ \A j \in (l + 1)..Len(S) : S[j] # i]
        ELSE 0]

\* xi.update(dict(zip(S, xi_stack.reshape(-1, 1)))): the last position of a
\* repeated sample wins
WriteBack(S, xi, xi_stack) ==
    [i \in DOMAIN xi |->
        IF \E l \in 1..Len(S) : S[l] = i
        THEN xi_stack[CHOOSE l \in 1..Len(S) : S[l] = i /\ \A j \in (l + 1)..Len(S) : S[j] # i]
        ELSE xi[i]]

\* the descent test taken on d @ -rhs
NoDescentFlipped(d, rhs) == ~(-Dot(d, rhs) >= 0)

\* "not d @ rhs > -1e-8": d @ rhs is a whole number of units of 1/SC^2, far
\* coarser than 1e-8, so the test fails exactly when d @ rhs is negative
NoDescent(d, rhs) == ~(Dot(d, rhs) >= 0)

\* the test of the residual with the tolerance left out
ResidualLeZero(rhs, tol) == Dot(rhs, rhs) <= 0

\* np.linalg.norm(rhs) <= tol, tol a fraction
ResidualLeTol(rhs, tol) == Dot(rhs, rhs) <= Fix(tol) * Fix(tol)

\* ------------------------------------------------------------------------
\* parameter handling
\* ------------------------------------------------------------------------

get_default_newton_params ==
    [tau |-> <<9, 10>>, eta |-> <<1, 100000>>, rho |-> <<1, 2>>, mu |-> <<2, 5>>,
     cg_max_iter |-> 12, max_iter |-> 20]

\* check_newton_params with every range closed at both ends
check_newton_params_closed(np) ==
    /\ FrLe(<<0, 1>>, np.mu)  /\ FrLe(np.mu, <<1, 2>>)
    /\ FrLe(<<0, 1>>, np.eta) /\ FrLe(np.eta, <<1, 1>>)
    /\ FrLe(<<0, 1>>, np.tau) /\ FrLe(np.tau, <<1, 1>>)
    /\ FrLe(<<0, 1>>, np.rho) /\ FrLe(np.rho, <<1, 1>>)

\* the four assertions of check_newton_params
check_newton_params(np) ==
    /\ FrGt(np.mu, <<0, 1>>)  /\ FrLt(np.mu, <<1, 2>>)
    /\ FrGt(np.eta, <<0, 1>>) /\ FrLt(np.eta, <<1, 1>>)
    /\ FrGt(np.tau, <<0, 1>>) /\ FrLe(np.tau, <<1, 1>>)
    /\ FrGt(np.rho, <<0, 1>>) /\ FrLt(np.rho, <<1, 1>>)

\* np.sqrt of a fixed-point real, rounded to the nearest unit
RECURSIVE SqrtFloor(_, _, _)
SqrtFloor(w, lo, hi) ==
    IF hi - lo <= 1 THEN lo
    ELSE LET mid == (lo + hi) \div 2
         IN  IF mid * mid <= w THEN SqrtFloor(w, mid, hi) ELSE SqrtFloor(w, lo, mid)

FSqrt(v) ==
    LET w == v * SC
        r == SqrtFloor(w, 0, 46340)
    IN  IF (r + 1) * (r + 1) - w < w - r * r THEN r + 1 ELSE r

\* the loss-family constant L_i of derive_L: 2 for the squared loss
derive_L(f) == IF f.name = "squared" THEN 2 * SC ELSE SC

RowNormSq(f) == [r \in 1..Len(f.A) |-> Dot(f.A[r], f.A[r]) * SC]

MaxOf(v) == CHOOSE a \in {v[k] : k \in 1..Len(v)} : \A k \in 1..Len(v) : v[k] <= a

snspp_theoretical_step_size(f, b, m, eta) ==
    LET normA  == RowNormSq(f)
        M      == IF ~f.convex THEN FMul(f.gamma, MaxOf(normA)) ELSE 0
        L_i    == derive_L(f)
        L      == FMul(L_i, RDiv(SumSeq(normA), Len(normA)))
        tildeL == FMul(L_i, MaxOf(normA))
        term1  == 2 * L + M
        term2  == FMul(SC + FDiv(m * SC, FSqrt(2 * b * SC)), tildeL) + Max2(M, L)
        a      == FMul(FDiv(SC, Fix(eta)), Max2(term1, term2))
    IN  FDiv(SC, a)

get_default_spp_params(f) ==
    LET b == Max2((NofF(f) * 5) \div 1000, 1)
        m == 10
        a == snspp_theoretical_step_size(f, b, m, <<1, 2>>)
    IN  [alpha |-> a, max_iter |-> 100, batch_size |-> b, sample_style |-> "constant",
         reduce_variance |-> FALSE, m_iter |-> m, vr_skip |-> 0, tol_sub |-> <<1, 1000>>,
         newton_params |-> <<get_default_newton_params>>]

\* params.update({k: v for k, v in params_def.items() if k not in params.keys()})
ParamsUpdate(p, params_def) ==
    [k \in DOMAIN p \cup DOMAIN params_def |->
        IF k \in DOMAIN p THEN p[k] ELSE params_def[k]]

\* b to the power e
RECURSIVE Pow(_, _)
Pow(b, e) == IF e = 0 THEN 1 ELSE b * Pow(b, e - 1)

\* the exponent the comparisons of ExactY work with: b * 4^(tc/D - 1) >= k is
\* b^D >= k^D * 4^(D - tc), of which the square root is taken when D is even
HalfD(D) == IF D % 2 = 0 THEN D \div 2 ELSE D

\* 2^(D - tc) for D even, 4^(D - tc) for D odd
Shrink(tc, D) == IF D % 2 = 0 THEN Pow(2, D - tc) ELSE Pow(4, D - tc)

\* the integer part of exp(c1 * tc + c2) = a * (b/a)^(tc/D) for a = b/4, in
\* exact arithmetic
ExactY(tc, b, D) ==
    LET h == HalfD(D)
        Q == Pow(b, h) \div Shrink(tc, D)
    IN  CHOOSE k \in 0..b : Pow(k, h) <= Q /\ (k = b \/ Pow(k + 1, h) > Q)

\* a * (b/a)^(tc/D) is a whole number: exp(log(.)) may then fall just below it,
\* and astype(int) cuts the fraction off
IsWhole(tc, b, D) ==
    LET h == HalfD(D)
    IN  /\ Pow(b, h) % Shrink(tc, D) = 0
        /\ Pow(ExactY(tc, b, D), h) = Pow(b, h) \div Shrink(tc, D)

\* batch_size_constructor(np.arange(T), a = b/4, b, M, cutoff) (lines 31-45):
\* the arrays it can return.  down is the set of capped iterations min(t, cutoff)
\* at which the float result falls below a whole exact value.  With M = 0 the
\* exponent is nan and the result is [1].
batch_size_constructor(T, b, M, cutoff) ==
    LET D      == IF M > cutoff THEN cutoff ELSE M
        cap(t) == IF t <= cutoff THEN t ELSE cutoff
        whole  == IF M >= 1 THEN {tc \in 0..D : IsWhole(tc, b, D)} ELSE {}
    IN  IF M = 0 THEN { [t \in 1..T |-> 1] }
        ELSE { [t \in 1..T |->
                  Max2(ExactY(cap(t - 1), b, D) - (IF cap(t - 1) \in down THEN 1 ELSE 0), 1)] :
               down \in SUBSET whole }

\* the cutoff of 'increasing' (the default of batch_size_constructor) and of
\* 'fast_increasing'
IncreasingCutoff == 18

FastCutoff == 10

\* the schedules of batch sizes, one entry per outer iteration (lines 228-235)
BatchSchedule(p) ==
    IF p.sample_style = "increasing"
    THEN batch_size_constructor(p.max_iter, p.batch_size, p.max_iter - 1, IncreasingCutoff)
    ELSE IF p.sample_style = "fast_increasing"
    THEN batch_size_constructor(p.max_iter, p.batch_size, p.max_iter - 1, FastCutoff)
    ELSE { [t \in 1..p.max_iter |-> p.batch_size] }

\* get_xi_start_point: -0.5 for logistic, zeros for every loss but tstudent
get_xi_start_point(f) ==
    [i \in 0..(NofF(f) - 1) |-> IF f.name = "logistic" THEN -(SC \div 2) ELSE 0]

\* compute_full_xi: xi_i = g_i(A_i x)
compute_full_xi(f, x) == [i \in 0..(NofF(f) - 1) |-> g(f, Dot(f.A[i + 1], x), i)]

\* A.T @ xi_tilde without the factor 1/N
FullGUnscaled(f, xi_tilde) == MatTVec(f.A, Stack(xi_tilde, AllSamples(f)), NCols(f))

\* full_g = (1/N) * (A.T @ xi_tilde)
FullG(f, xi_tilde) ==
    LET v == MatTVec(f.A, Stack(xi_tilde, AllSamples(f)), NCols(f))
    IN  [k \in 1..Len(v) |-> RDiv(v[k], NofF(f))]

\* xi = xi_tilde + gammas * (A @ x_t), the dual of the weakly convex fast path
ShiftedXi(f, xi_tilde, x) ==
    [i \in DOMAIN xi_tilde |-> xi_tilde[i] + FMul(weak_conv(f, i), Dot(f.A[i + 1], x))]

\* stop_scikit_saga: eta = max_j |x_t[j] - x_old[j]| / (1 + |x_old[j]|), a fraction
stop_scikit_saga(x_new, x_prev) ==
    LET fr(j) == <<Abs(x_new[j] - x_prev[j]), SC + Abs(x_prev[j])>>
        top   == CHOOSE j \in 1..Len(x_new) :
                    \A k \in 1..Len(x_new) :
                        /\ FrLe(fr(k), fr(j))
                        /\ (FrLe(fr(j), fr(k)) => j <= k)
    IN  fr(top)

\* (iter_t + 2) ** 0.51 for iter_t + 2 = 1..8, in thousandths
Pow051(k) == <<1000, 1424, 1751, 2028, 2272, 2494, 2698, 2888>>[k]

\* the decay counted from iter_t + 1 instead of iter_t + 2
DecayedAlphaOff(alpha, iter_t) == RDiv(alpha * 1000, Pow051(iter_t + 1))

\* params['alpha'] / (iter_t + 2) ** 0.51
DecayedAlpha(alpha, iter_t) == RDiv(alpha * 1000, Pow051(iter_t + 2))

\* sampler(N, size, replace = True): the sorted draws of `size` indices of 0..N-1
Sorted(sq) == \A k \in 1..(Len(sq) - 1) : sq[k] <= sq[k + 1]

sampler(N, size) == {sq \in [1..size -> 0..(N - 1)] : Sorted(sq)}

\* ------------------------------------------------------------------------
\* state of one call stochastic_prox_point(f, phi, x0, xi = None, tol, params,
\* verbose, measure)
\* ------------------------------------------------------------------------

VARIABLES
    f, phi, x0, tol, measure, verbose,  \* the arguments of the call
    caller,          \* the params dict as the caller built it
    params,          \* the params dict object (updated in place at entry)
    pc,              \* position in the code
    err,             \* the exception that ended the call, "" if none
    status, eta,
    x_t, x_old,
    alpha_t, iter_t, batch_size,
    xi,              \* the dual, sample -> block
    xi_tilde, full_g,\* the snapshot: <<>> is None, <<v>> is the value v
    this_iter_vr,    \* <<>> while the name is unbound
    reduce_variance, S,
    hist,            \* x_hist, xi_hist, step_sizes, obj, ssn_info, S_hist, runtime, num_eval
    sub,             \* the locals of the running solve_subproblem call
    warned,          \* the warnings issued so far
    ret,             \* the returned (x_t, x_mean, info): <<>> before the return
    gradients,       \* saga: the table of per-sample gradients, sample -> row
    g_sum,           \* saga: (1/N) * the sum of the rows of the table
    x_mean,          \* saga: the local x_mean
    rng,             \* saga: the draws np.random.randint has returned so far
    fn_call,         \* a call of a helper on its own: <<>>, or <<name, arguments>>
    fn_res,          \* what that call returned (or raised): <<>> before it ends
    harness          \* the caller of the solvers (a tuning harness, a session): <<>>, or <<locals>>

args == <<f, phi, x0, tol, measure, verbose, caller>>

vars == <<f, phi, x0, tol, measure, verbose, caller, params, pc, err, status, eta,
          x_t, x_old, alpha_t, iter_t, batch_size, xi, xi_tilde, full_g,
          this_iter_vr, reduce_variance, S, hist, sub, warned, ret,
          gradients, g_sum, x_mean, rng, fn_call, fn_res, harness>>

\* the locals of saga and the helper calls, which stochastic_prox_point leaves alone
outside_spp == <<gradients, g_sum, x_mean, rng, fn_call, fn_res, harness>>

EmptyHist ==
    [x_hist |-> <<>>, xi_hist |-> <<>>, step_sizes |-> <<>>, obj |-> <<>>,
     ssn_info |-> <<>>, S_hist |-> <<>>, runtime |-> <<>>, num_eval |-> <<>>]

\* solve_subproblem's locals before the call
NoSub ==
    [active |-> FALSE, sub_iter |-> 0, converged |-> FALSE, subA |-> <<>>,
     xi_stack |-> <<>>, hat_d |-> <<>>, rhs |-> <<>>, d |-> <<>>, beta |-> <<1, 1>>,
     U_old |-> 0, U_new |-> 0,
     residual |-> <<>>, norm_dir |-> <<>>, step_sz |-> <<>>, obj |-> <<>>,
     num_eval |-> <<>>]

\* ------------------------------------------------------------------------
\* the calls explored
\* ------------------------------------------------------------------------

DesignA == << <<1, 0>>, <<1, 1>> >>

\* the squared loss of src/lasso.py (no fstar_vec: the general solver) and the
\* weakly convex loss, on the general solver and on the fast path
Losses ==
    { [name |-> IF cv THEN "squared" ELSE "wcvx", convex |-> cv, easy |-> ez,
       A |-> DesignA, b |-> <<SC, 2 * SC>>,
       gamma |-> IF cv THEN 0 ELSE SC, H |-> <<1, 2>>] : cv \in BOOLEAN, ez \in BOOLEAN }

\* a squared loss a caller wrote whose Hstar has the wrong sign
UserLoss ==
    [name |-> "user", convex |-> TRUE, easy |-> FALSE, A |-> DesignA, b |-> <<SC, 2 * SC>>,
     gamma |-> 0, H |-> <<-3, 2>>]

Phis == { [name |-> "1norm", lambda1 |-> SC \div 10] }

Tols == { <<1, 1000>>, <<1, 2>>, Inf }

\* newton_params a caller passes: None, or a cap of one Newton step
GoodNewton ==
    { <<>>, <<[get_default_newton_params EXCEPT !.max_iter = 1]>> }

\* tau at the closed end of its range
TauOne == <<[get_default_newton_params EXCEPT !.tau = <<1, 1>>, !.max_iter = 1]>>

\* a cap of no Newton step at all: check_newton_params does not look at max_iter
ZeroNewton == <<[get_default_newton_params EXCEPT !.max_iter = 0]>>

\* one value outside each end of each range check_newton_params checks
BadNewton ==
    LET dflt == get_default_newton_params
    IN  { <<[dflt EXCEPT !.mu = <<0, 1>>]>>,  <<[dflt EXCEPT !.mu = <<1, 2>>]>>,
          <<[dflt EXCEPT !.eta = <<0, 1>>]>>, <<[dflt EXCEPT !.eta = <<1, 1>>]>>,
          <<[dflt EXCEPT !.tau = <<0, 1>>]>>, <<[dflt EXCEPT !.tau = <<11, 10>>]>>,
          <<[dflt EXCEPT !.rho = <<0, 1>>]>>, <<[dflt EXCEPT !.rho = <<1, 1>>]>> }

AllKeys == {"alpha", "max_iter", "batch_size", "sample_style", "reduce_variance",
            "m_iter", "vr_skip", "tol_sub", "newton_params"}

\* the keys a caller sets: all of them, or all but those with a documented default
KeySets == { AllKeys,
             AllKeys \ {"reduce_variance", "m_iter", "tol_sub", "newton_params"} }

\* (m_iter, vr_skip) a caller passes
VrChoices == { <<1, 0>>, <<2, 0>>, <<2, 1>>, <<1, 1>> }

ParamsOf(a, mi, bs, rv, vrp, np) ==
    [alpha |-> a, max_iter |-> mi, batch_size |-> bs, sample_style |-> "constant",
     reduce_variance |-> rv, m_iter |-> vrp[1], vr_skip |-> vrp[2],
     tol_sub |-> <<1, 100>>, newton_params |-> np]

\* the params dicts of the calls with valid Newton parameters and step size
GoodParams ==
    LET full == { ParamsOf(SC \div 2, mi, bs, rv, vrp, np) :
                     mi \in 0..MaxIter, bs \in {1, 2}, rv \in BOOLEAN,
                     vrp \in VrChoices, np \in GoodNewton }
    IN  { [k \in ks |-> p[k]] :
             p \in {q \in full : q.reduce_variance \/ q.m_iter = 1}, ks \in KeySets }

\* calls whose Newton parameters or step size are out of range
BadParams ==
    { ParamsOf(a, 1, bs, rv, vrp, np) :
         a \in {SC \div 2}, bs \in {1, 2}, rv \in BOOLEAN,
         vrp \in { <<1, 0>>, <<2, 1>> }, np \in BadNewton }
    \cup
    { ParamsOf(a, 1, bs, rv, vrp, <<>>) :
         a \in {0, -(SC \div 2)}, bs \in {1, 2}, rv \in BOOLEAN,
         vrp \in { <<1, 0>>, <<2, 1>> } }

Call(ff, xx, tt, out, p) ==
    [f |-> ff, x0 |-> xx, tol |-> tt, measure |-> out[1], verbose |-> out[2], params |-> p]

\* (measure, verbose) of the calls
Outputs == { <<FALSE, FALSE>>, <<TRUE, TRUE>> }

Calls ==
    { Call(ff, <<0, 0>>, tt, out, p) :
         ff \in Losses, tt \in Tols, out \in Outputs, p \in GoodParams }
    \cup
    { Call(ff, <<0, 0>>, <<1, 1000>>, <<FALSE, FALSE>>, p) : ff \in Losses, p \in BadParams }
    \cup
    { Call(ff, <<0>>, <<1, 1000>>, <<FALSE, FALSE>>, ParamsOf(SC \div 2, 1, 1, rv, <<1, 0>>, <<>>)) :
         ff \in Losses, rv \in BOOLEAN }
    \cup
    { Call(UserLoss, <<0, 0>>, <<1, 1000>>, <<TRUE, TRUE>>,
           ParamsOf(SC \div 2, 1, bs, FALSE, <<1, 0>>, np)) :
         bs \in {1, 2}, np \in GoodNewton }
    \cup
    { Call(ff, <<0, 0>>, <<1, 1000>>, <<FALSE, FALSE>>,
           ParamsOf(SC \div 2, 1, bs, FALSE, <<1, 0>>, TauOne)) :
         ff \in Losses, bs \in {1, 2} }
    \cup
    { Call(ff, <<0, 0>>, <<1, 1000>>, out, ParamsOf(SC \div 2, 2, 1, FALSE, <<1, 0>>, ZeroNewton)) :
         ff \in Losses, out \in Outputs }

Init ==
    /\ \E c \in Calls :
          /\ f = c.f
          /\ x0 = c.x0
          /\ tol = c.tol
          /\ measure = c.measure
          /\ verbose = c.verbose
          /\ caller = c.params
    /\ phi \in Phis
    /\ params = caller
    /\ pc = "entry"
    /\ err = ""
    /\ status = ""
    /\ eta = Inf
    /\ x_t = <<>>
    /\ x_old = <<>>
    /\ alpha_t = 0
    /\ iter_t = -1
    /\ batch_size = <<>>
    /\ xi = <<>>
    /\ xi_tilde = <<>>
    /\ full_g = <<>>
    /\ this_iter_vr = <<>>
    /\ reduce_variance = FALSE
    /\ S = <<>>
    /\ hist = EmptyHist
    /\ sub = NoSub
    /\ warned = <<>>
    /\ ret = <<>>
    /\ gradients = <<>>
    /\ g_sum = <<>>
    /\ x_mean = <<>>
    /\ rng = <<>>
    /\ fn_call = <<>>
    /\ fn_res = <<>>
    /\ harness = <<>>

\* is_easy = (f.m.max() == 1) and callable(getattr(f, "fstar_vec", None))
is_easy == f.easy

\* raise: the call ends with exception e
Raise(e) == pc' = "error" /\ err' = e

\* the assertion of line 204 taken as passed whatever the dimensions are
dimension_unchecked == TRUE

\* n == A.shape[1] (line 204)
dimension_ok == Len(x0) = NCols(f)

\* lines 202-258: the dimension check, the defaults, the initial state
Entry ==
    /\ pc = "entry"
    /\ IF ~dimension_ok
       THEN /\ Raise("AssertionError")
            /\ UNCHANGED <<args, params, status, eta, x_t, x_old, alpha_t, iter_t,
                           batch_size, xi, xi_tilde, full_g, this_iter_vr,
                           reduce_variance, S, hist, sub, warned, ret>>
       ELSE /\ x_t' = x0
            /\ status' = "not optimal"
            /\ eta' = Inf
            /\ params' = ParamsUpdate(params, get_default_spp_params(f))
            /\ alpha_t' = params'.alpha
            /\ batch_size' \in BatchSchedule(params')
            /\ xi' = get_xi_start_point(f)
            /\ hist' = EmptyHist
            /\ xi_tilde' = <<>>
            /\ full_g' = <<>>
            /\ this_iter_vr' = IF params'.reduce_variance THEN <<>> ELSE <<FALSE>>
            /\ pc' = "loop"
            /\ UNCHANGED <<args, err, x_old, iter_t, reduce_variance, S, sub, warned, ret>>
    /\ UNCHANGED outside_spp

\* the head of the for loop without the check of eta
LoopHeadNoBreak ==
    /\ pc = "loop"
    /\ IF iter_t + 1 >= params.max_iter
       THEN /\ pc' = "after"
            /\ UNCHANGED <<iter_t, x_old>>
       ELSE /\ iter_t' = iter_t + 1
            /\ x_old' = x_t
            /\ pc' = "sample"
    /\ UNCHANGED <<args, params, err, status, eta, x_t, alpha_t, batch_size, xi, xi_tilde,
                   full_g, this_iter_vr, reduce_variance, S, hist, sub, warned, ret>>
    /\ UNCHANGED outside_spp

\* lines 269-277: the head of the for loop and the termination check
LoopHead ==
    /\ pc = "loop"
    /\ IF iter_t + 1 >= params.max_iter
       THEN /\ pc' = "after"
            /\ UNCHANGED <<iter_t, status, x_old>>
       ELSE /\ iter_t' = iter_t + 1
            /\ IF FrLe(eta, tol)
               THEN /\ status' = "optimal"
                    /\ pc' = "after"
                    /\ UNCHANGED x_old
               ELSE /\ x_old' = x_t
                    /\ pc' = "sample"
                    /\ UNCHANGED status
    /\ UNCHANGED <<args, params, err, eta, x_t, alpha_t, batch_size, xi, xi_tilde,
                   full_g, this_iter_vr, reduce_variance, S, hist, sub, warned, ret>>
    /\ UNCHANGED outside_spp

\* the batch of this iteration, and a restart from x0 that no draw decides
SampleRestart ==
    /\ pc = "sample"
    /\ IF batch_size[iter_t + 1] > NofF(f)
       THEN Raise("AssertionError") /\ UNCHANGED <<S, reduce_variance, x_t>>
       ELSE /\ S' \in sampler(NofF(f), batch_size[iter_t + 1])
            /\ x_t' \in {x_t, x0}
            /\ reduce_variance' = (params.reduce_variance /\ iter_t >= params.vr_skip)
            /\ pc' = "vr"
            /\ UNCHANGED err
    /\ UNCHANGED <<args, params, status, eta, x_old, alpha_t, iter_t, batch_size,
                   xi, xi_tilde, full_g, this_iter_vr, hist, sub, warned, ret>>
    /\ UNCHANGED outside_spp

\* lines 280-284: the batch of this iteration and the variance-reduction flag
Sample ==
    /\ pc = "sample"
    /\ IF batch_size[iter_t + 1] > NofF(f)
       THEN Raise("AssertionError") /\ UNCHANGED <<S, reduce_variance>>
       ELSE /\ S' \in sampler(NofF(f), batch_size[iter_t + 1])
            /\ reduce_variance' = (params.reduce_variance /\ iter_t >= params.vr_skip)
            /\ pc' = "vr"
            /\ UNCHANGED err
    /\ UNCHANGED <<args, params, status, eta, x_t, x_old, alpha_t, iter_t, batch_size,
                   xi, xi_tilde, full_g, this_iter_vr, hist, sub, warned, ret>>
    /\ UNCHANGED outside_spp

\* a refresh every m_iter iterations that ignores vr_skip
ThisIterVrNoSkip == iter_t % params.m_iter = 0

\* this_iter_vr = iter_t % params['m_iter'] == params['vr_skip'] (line 290)
ThisIterVr == iter_t % params.m_iter = params.vr_skip

\* lines 289-303: the refresh of the snapshot
VarianceReduction ==
    /\ pc = "vr"
    /\ IF ~params.reduce_variance
       THEN /\ pc' = "solve"
            /\ UNCHANGED <<err, this_iter_vr, xi_tilde, full_g, xi>>
       ELSE /\ this_iter_vr' = <<ThisIterVr>>
            /\ IF this_iter_vr'[1]
               THEN /\ xi_tilde' = <<compute_full_xi(f, x_t)>>
                    /\ full_g' = <<FullG(f, xi_tilde'[1])>>
                    /\ IF f.convex
                       THEN xi' = xi_tilde'[1] /\ pc' = "solve" /\ UNCHANGED err
                       ELSE IF is_easy
                            THEN /\ xi' = ShiftedXi(f, xi_tilde'[1], x_t)
                                 /\ pc' = "solve"
                                 /\ UNCHANGED err
                            ELSE Raise("KeyError") /\ UNCHANGED xi
               ELSE /\ pc' = "solve"
                    /\ UNCHANGED <<err, xi_tilde, full_g, xi>>
    /\ UNCHANGED <<args, params, status, eta, x_t, x_old, alpha_t, iter_t, batch_size,
                   reduce_variance, S, hist, sub, warned, ret>>
    /\ UNCHANGED outside_spp

\* the newton_params solve_subproblem works with (lines 414-415)
newton_params ==
    IF params.newton_params = <<>> THEN get_default_newton_params
    ELSE params.newton_params[1]

\* lines 410-469: the checks of solve_subproblem, the stacking of the dual on S
\* and the correction hat_d
SubEntry ==
    /\ pc = "solve"
    /\ IF ~check_newton_params(newton_params) \/ ~(alpha_t > 0)
       THEN Raise("AssertionError") /\ UNCHANGED sub
       ELSE IF reduce_variance /\ xi_tilde = <<>>
            THEN Raise("TypeError") /\ UNCHANGED sub
            ELSE /\ sub' = [NoSub EXCEPT
                              !.active = TRUE,
                              !.subA = SubA(f, S),
                              !.xi_stack = Stack(xi, S),
                              !.hat_d = HatD(f, x_t, alpha_t, S, SubA(f, S), reduce_variance,
                                             IF reduce_variance THEN xi_tilde[1] ELSE xi)]
                 /\ pc' = "newton"
                 /\ UNCHANGED err
    /\ UNCHANGED <<args, params, status, eta, x_t, x_old, alpha_t, iter_t, batch_size,
                   xi, xi_tilde, full_g, this_iter_vr, reduce_variance, S, hist,
                   warned, ret>>
    /\ UNCHANGED outside_spp

\* lines 471-525: the head of the Newton loop, the residual, the Newton
\* direction and the first trial point of the line search
NewtonHead ==
    /\ pc = "newton"
    /\ IF sub.sub_iter >= newton_params.max_iter
       THEN /\ pc' = "sub_done"
            /\ UNCHANGED <<sub, warned>>
       ELSE LET z   == Zof(x_t, alpha_t, sub.subA, sub.xi_stack, sub.hat_d)
                rhs == Rhs(f, phi, alpha_t, S, sub.subA, xi, z)
                W   == NewtonW(f, phi, alpha_t, S, sub.subA, xi, z)
                d   == cg(W, rhs)
                res == Append(sub.residual, Dot(rhs, rhs))
            IN  IF ResidualLeTol(rhs, params.tol_sub)
                THEN /\ sub' = [sub EXCEPT !.residual = res, !.converged = TRUE, !.rhs = rhs]
                     /\ pc' = "sub_done"
                     /\ UNCHANGED warned
                ELSE /\ warned' = IF NoDescent(d, rhs)
                                  THEN Append(warned, "No descent direction")
                                  ELSE warned
                     /\ sub' = [sub EXCEPT
                                  !.residual = res,
                                  !.rhs = rhs,
                                  !.d = d,
                                  !.norm_dir = Append(@, Dot(d, d)),
                                  !.U_old = Ueval(sub.xi_stack, f, phi, x_t, alpha_t, S, sub.subA, sub.hat_d),
                                  !.beta = <<1, 1>>,
                                  !.U_new = Ueval(StepTo(sub.xi_stack, <<1, 1>>, d),
                                                  f, phi, x_t, alpha_t, S, sub.subA, sub.hat_d)]
                     /\ pc' = "armijo"
    /\ UNCHANGED <<args, params, err, status, eta, x_t, x_old, alpha_t, iter_t,
                   batch_size, xi, xi_tilde, full_g, this_iter_vr, reduce_variance, S,
                   hist, ret>>
    /\ UNCHANGED outside_spp

\* the test of the backtracking loop with >= for >
ArmijoFailsWeak ==
    sub.U_new >= ArmijoBound(sub.U_old, newton_params.mu, sub.beta, sub.d, sub.rhs)

\* the test of the backtracking loop (line 527)
ArmijoFails ==
    sub.U_new > ArmijoBound(sub.U_old, newton_params.mu, sub.beta, sub.d, sub.rhs)

\* lines 527-529: one shrink of beta
ArmijoShrink ==
    /\ pc = "armijo"
    /\ ArmijoFails
    /\ LET beta == <<sub.beta[1] * newton_params.rho[1], sub.beta[2] * newton_params.rho[2]>>
       IN  sub' = [sub EXCEPT
                     !.beta = beta,
                     !.U_new = Ueval(StepTo(sub.xi_stack, beta, sub.d),
                                     f, phi, x_t, alpha_t, S, sub.subA, sub.hat_d)]
    /\ UNCHANGED <<args, params, pc, err, status, eta, x_t, x_old, alpha_t, iter_t,
                   batch_size, xi, xi_tilde, full_g, this_iter_vr, reduce_variance, S,
                   hist, warned, ret>>
    /\ UNCHANGED outside_spp

\* lines 531-547: the step is accepted, xi_stack is written back into xi
NewtonUpdate ==
    /\ pc = "armijo"
    /\ ~ArmijoFails
    /\ LET xs == StepTo(sub.xi_stack, sub.beta, sub.d)
       IN  /\ sub' = [sub EXCEPT
                        !.step_sz = Append(@, sub.beta),
                        !.obj = Append(@, sub.U_new),
                        !.num_eval = Append(@, (2 + LogRatio(sub.beta, newton_params.rho)) * Len(S)),
                        !.xi_stack = xs,
                        !.sub_iter = @ + 1]
           /\ xi' = WriteBack(S, xi, xs)
    /\ pc' = "newton"
    /\ UNCHANGED <<args, params, err, status, eta, x_t, x_old, alpha_t, iter_t,
                   batch_size, xi_tilde, full_g, this_iter_vr, reduce_variance, S,
                   hist, warned, ret>>
    /\ UNCHANGED outside_spp

\* the diagnostics solve_subproblem returns
SsnInfo ==
    [residual |-> sub.residual, direction |-> sub.norm_dir, step_size |-> sub.step_sz,
     objective |-> sub.obj, evaluations |-> sub.num_eval]

\* the history with the objective recorded whether or not measure is set
RecordAlways(new_x) ==
    [hist EXCEPT
       !.ssn_info = Append(@, SsnInfo),
       !.x_hist = Append(@, new_x),
       !.runtime = Append(@, "seconds"),
       !.num_eval = Append(@, SumSeq(sub.num_eval) + (IF this_iter_vr[1] THEN NofF(f) ELSE 0)),
       !.obj = Append(@, f_eval(f, new_x) + phi_eval(phi, new_x)),
       !.step_sizes = Append(@, alpha_t),
       !.S_hist = Append(@, S),
       !.xi_hist = Append(@, xi)]

\* lines 326-341: the history buffers after the iteration that produced new_x
Record(new_x) ==
    [hist EXCEPT
       !.ssn_info = Append(@, SsnInfo),
       !.x_hist = Append(@, new_x),
       !.runtime = Append(@, "seconds"),
       !.num_eval = Append(@, SumSeq(sub.num_eval) + (IF this_iter_vr[1] THEN NofF(f) ELSE 0)),
       !.obj = IF measure THEN Append(@, f_eval(f, new_x) + phi_eval(phi, new_x)) ELSE @,
       !.step_sizes = Append(@, alpha_t),
       !.S_hist = Append(@, S),
       !.xi_hist = Append(@, xi)]

\* the warning of line 550 issued whether or not verbose is set
MaxIterWarningAlways == ~sub.converged

\* if not converged and verbose (line 549)
MaxIterWarning == ~sub.converged /\ verbose

\* lines 549-560 and 323-353: solve_subproblem returns the new primal; the
\* driver computes eta, records the iteration and adapts the step size.  The
\* message of the warning reads residual[-1]: an IndexError on an empty list
SubReturn ==
    /\ pc = "sub_done"
    /\ IF MaxIterWarning /\ sub.residual = <<>>
       THEN /\ Raise("IndexError")
            /\ UNCHANGED <<x_t, eta, hist, warned, alpha_t, sub>>
       ELSE /\ LET new_x == prox(phi, Zof(x_t, alpha_t, sub.subA, sub.xi_stack, sub.hat_d),
                                 alpha_t)
               IN  /\ x_t' = new_x
                   /\ eta' = stop_scikit_saga(new_x, x_old)
                   /\ hist' = Record(new_x)
            /\ warned' = IF MaxIterWarning
                         THEN Append(warned, "Reached max. iter in semismooth Newton")
                         ELSE warned
            /\ alpha_t' = IF f.convex /\ ~params.reduce_variance
                          THEN DecayedAlpha(params.alpha, iter_t)
                          ELSE alpha_t
            /\ sub' = NoSub
            /\ pc' = "loop"
            /\ UNCHANGED err
    /\ UNCHANGED <<args, params, status, x_old, iter_t, batch_size, xi, xi_tilde,
                   full_g, this_iter_vr, reduce_variance, S, ret>>
    /\ UNCHANGED outside_spp

\* the info record of the return statement
Info ==
    [objective |-> hist.obj, iterates |-> hist.x_hist, mean_hist |-> "None",
     xi_hist |-> hist.xi_hist,
     step_sizes |-> hist.step_sizes, samples |-> hist.S_hist, ssn_info |-> hist.ssn_info,
     runtime |-> hist.runtime,
     evaluations |-> [k \in 1..Len(hist.num_eval) |-> <<hist.num_eval[k], NofF(f)>>]]

\* lines 356-377: the final status, the info record, the return
AfterLoop ==
    /\ pc = "after"
    /\ status' = IF FrGt(eta, tol) THEN "max iterations reached" ELSE status
    /\ IF verbose /\ iter_t = -1
       THEN Raise("UnboundLocalError") /\ UNCHANGED ret
       ELSE IF hist.x_hist = <<>>
            THEN Raise("ValueError") /\ UNCHANGED ret
            ELSE /\ ret' = <<[x_t |-> x_t, x_mean |-> "None", info |-> Info]>>
                 /\ pc' = "returned"
                 /\ UNCHANGED err
    /\ UNCHANGED <<args, params, eta, x_t, x_old, alpha_t, iter_t, batch_size, xi,
                   xi_tilde, full_g, this_iter_vr, reduce_variance, S, hist, sub,
                   warned>>
    /\ UNCHANGED outside_spp

Next ==
    \/ Entry
    \/ LoopHead
    \/ Sample
    \/ VarianceReduction
    \/ SubEntry
    \/ NewtonHead
    \/ ArmijoShrink
    \/ NewtonUpdate
    \/ SubReturn
    \/ AfterLoop

Spec == Init /\ [][Next]_vars

\* ------------------------------------------------------------------------
\* stochastic_prox_point on the logistic loss: rows of A with the labels
\* folded in, the default dual -0.5, no variance reduction and no measuring
\* ------------------------------------------------------------------------

LogisticLoss ==
    [name |-> "logistic", convex |-> TRUE, easy |-> FALSE,
     A |-> << <<1, 0>>, <<-1, -1>> >>, b |-> <<1, -1>>, gamma |-> 0, H |-> <<1, 1>>]

\* starting points near and far from the minimiser: a far one makes the full
\* Newton step leave the domain of fstar
LogisticStarts == { <<0, 0>>, <<3 * SC, 0>>, <<-(3 * SC), SC>> }

LogisticCalls ==
    { Call(LogisticLoss, xx, tt, <<FALSE, vb>>,
           [ParamsOf(a, mi, 1, FALSE, <<1, 0>>, np) EXCEPT !.tol_sub = <<1, 10>>]) :
         xx \in LogisticStarts, tt \in { <<1, 1000>>, Inf }, vb \in BOOLEAN,
         a \in { SC \div 2, 2 * SC }, mi \in 1..MaxIter, np \in GoodNewton }

LogisticInit ==
    /\ \E c \in LogisticCalls :
          /\ f = c.f
          /\ x0 = c.x0
          /\ tol = c.tol
          /\ measure = c.measure
          /\ verbose = c.verbose
          /\ caller = c.params
    /\ phi \in Phis
    /\ params = caller
    /\ pc = "entry"
    /\ err = ""
    /\ status = ""
    /\ eta = Inf
    /\ x_t = <<>>
    /\ x_old = <<>>
    /\ alpha_t = 0
    /\ iter_t = -1
    /\ batch_size = <<>>
    /\ xi = <<>>
    /\ xi_tilde = <<>>
    /\ full_g = <<>>
    /\ this_iter_vr = <<>>
    /\ reduce_variance = FALSE
    /\ S = <<>>
    /\ hist = EmptyHist
    /\ sub = NoSub
    /\ warned = <<>>
    /\ ret = <<>>
    /\ gradients = <<>>
    /\ g_sum = <<>>
    /\ x_mean = <<>>
    /\ rng = <<>>
    /\ fn_call = <<>>
    /\ fn_res = <<>>
    /\ harness = <<>>

LogisticSpec == LogisticInit /\ [][Next]_vars

\* ------------------------------------------------------------------------
\* saga(f, phi, x0, tol, params, verbose, measure) of src/snspp/solver/saga.py
\* ------------------------------------------------------------------------

\* the variables saga leaves alone
outside_saga ==
    <<batch_size, xi, xi_tilde, full_g, this_iter_vr, reduce_variance, S, sub, fn_call, fn_res,
      harness>>

\* largest params['n_epochs'] a caller passes with N = 2
MaxEpochs == 3

\* a squared loss with a single sample
OneSample ==
    [name |-> "squared", convex |-> TRUE, easy |-> FALSE, A |-> << <<1, 1>> >>, b |-> <<SC>>,
     gamma |-> 0, H |-> <<1, 2>>]

\* the squared loss on DesignA
TwoSamples == CHOOSE l \in Losses : l.convex /\ ~l.easy

\* the params dicts of the calls of saga
SagaParams ==
    { [k \in {} |-> 0] }
    \cup { [n_epochs |-> e] : e \in 0..MaxEpochs }
    \cup { [n_epochs |-> e, alpha |-> a] : e \in 1..MaxEpochs, a \in {SC \div 4, 0} }

\* the calls of saga: the default n_epochs only with a single sample
SagaCalls ==
    { c \in { Call(ff, xx, tt, <<ms, ms>>, p) :
                 ff \in {OneSample, TwoSamples}, xx \in { <<0, 0>>, <<0>> }, tt \in Tols,
                 ms \in BOOLEAN, p \in SagaParams } :
         "n_epochs" \in DOMAIN c.params \/ NofF(c.f) = 1 }

SagaEmptyHist ==
    [x_hist |-> <<>>, step_sizes |-> <<>>, obj |-> <<>>, obj2 |-> <<>>, runtime |-> <<>>]

SagaInit ==
    /\ \E c \in SagaCalls :
          /\ f = c.f
          /\ x0 = c.x0
          /\ tol = c.tol
          /\ measure = c.measure
          /\ verbose = c.verbose
          /\ caller = c.params
    /\ phi \in Phis
    /\ params = caller
    /\ pc = "saga_entry"
    /\ err = ""
    /\ status = ""
    /\ eta = Inf
    /\ x_t = <<>>
    /\ x_old = <<>>
    /\ alpha_t = 0
    /\ iter_t = -1
    /\ batch_size = <<>>
    /\ xi = <<>>
    /\ xi_tilde = <<>>
    /\ full_g = <<>>
    /\ this_iter_vr = <<>>
    /\ reduce_variance = FALSE
    /\ S = <<>>
    /\ hist = SagaEmptyHist
    /\ sub = NoSub
    /\ warned = <<>>
    /\ ret = <<>>
    /\ gradients = <<>>
    /\ g_sum = <<>>
    /\ x_mean = <<>>
    /\ rng = <<>>
    /\ fn_call = <<>>
    /\ fn_res = <<>>
    /\ harness = <<>>

\* A_j.T @ f.g(A_j @ x, j)
SampleGradient(ff, x, j) ==
    LET gj == g(ff, Dot(ff.A[j + 1], x), j)
    IN  [k \in 1..NCols(ff) |-> ff.A[j + 1][k] * gj]

\* compute_gradient_table: row i is A_i.T @ f.g(A_i @ x, i)
compute_gradient_table(ff, x) == [i \in 0..(NofF(ff) - 1) |-> SampleGradient(ff, x, i)]

\* the sum of the rows without the factor 1/N
GradientSum(tbl, N, n) == [k \in 1..n |-> SumSeq([i \in 1..N |-> tbl[i - 1][k]])]

\* (1/N) * gradients.sum(axis = 0)
GradientMean(tbl, N, n) ==
    [k \in 1..n |-> RDiv(SumSeq([i \in 1..N |-> tbl[i - 1][k]]), N)]

\* the params dict after lines 34-38
SagaParamsUpdate(p) == ParamsUpdate(p, [n_epochs |-> 10, reg |-> 0])

\* the step size of lines 40-50
SagaAlpha(ff, p) ==
    IF "alpha" \in DOMAIN p THEN p.alpha
    ELSE LET L == IF ff.name = "squared" THEN 2 * MaxOf(RowNormSq(ff))
                  ELSE IF ff.name = "logistic" THEN RDiv(MaxOf(RowNormSq(ff)), 4)
                  ELSE 100 * SC
         IN  FDiv(SC, 3 * L)

\* compute_x_mean(x_hist, step_sizes = None): an averaging rule the model leaves open
compute_x_mean(x_hist) == <<"compute_x_mean", x_hist>>

\* f.eval(x) + phi.eval(x) at an iterate x
Psi(x) == f_eval(f, x) + phi_eval(phi, x)

\* f.eval(x_mean) + phi.eval(x_mean) at the value compute_x_mean returned
PsiMean(xm) == <<"psi", xm>>

\* raise: the call of saga ends with exception e
SagaRaise(e) == pc' = "saga_error" /\ err' = e

\* lines 18-68: the dimension check, the gradient table, the defaults
SagaEntry ==
    /\ pc = "saga_entry"
    /\ IF Len(x0) # NCols(f)
       THEN /\ SagaRaise("AssertionError")
            /\ UNCHANGED <<params, status, eta, x_t, alpha_t, hist, warned, gradients,
                           g_sum, x_mean>>
       ELSE /\ x_t' = x0
            /\ x_mean' = x0
            /\ gradients' = compute_gradient_table(f, x0)
            /\ params' = SagaParamsUpdate(params)
            /\ alpha_t' = SagaAlpha(f, params')
            /\ warned' = IF "alpha" \notin DOMAIN params /\ f.name \notin {"squared", "logistic"}
                         THEN Append(warned, "We could not determine the correct SAGA step size!")
                         ELSE warned
            /\ status' = "not optimal"
            /\ eta' = Inf
            /\ hist' = SagaEmptyHist
            /\ g_sum' = GradientMean(gradients', NofF(f), NCols(f))
            /\ pc' = "saga_loop"
            /\ UNCHANGED err
    /\ UNCHANGED <<args, x_old, iter_t, ret, rng, outside_saga>>

\* the head of the for loop with the check of eta left out
SagaLoopHeadNoBreak ==
    /\ pc = "saga_loop"
    /\ IF iter_t + 1 >= NofF(f) * params.n_epochs
       THEN /\ pc' = "saga_after"
            /\ UNCHANGED <<iter_t, x_old>>
       ELSE /\ iter_t' = iter_t + 1
            /\ x_old' = x_t
            /\ pc' = "saga_step"
    /\ UNCHANGED <<args, params, err, status, eta, x_t, alpha_t, hist, warned, ret, gradients,
                   g_sum, x_mean, rng, outside_saga>>

\* lines 69-78: the head of the for loop and the termination check
SagaLoopHead ==
    /\ pc = "saga_loop"
    /\ IF iter_t + 1 >= NofF(f) * params.n_epochs
       THEN /\ pc' = "saga_after"
            /\ UNCHANGED <<iter_t, status, x_old>>
       ELSE /\ iter_t' = iter_t + 1
            /\ IF FrLe(eta, tol)
               THEN /\ status' = "optimal"
                    /\ pc' = "saga_after"
                    /\ UNCHANGED x_old
               ELSE /\ x_old' = x_t
                    /\ pc' = "saga_step"
                    /\ UNCHANGED status
    /\ UNCHANGED <<args, params, err, eta, x_t, alpha_t, hist, warned, ret, gradients,
                   g_sum, x_mean, rng, outside_saga>>

\* iter_t % N == 1 (lines 102 and 109)
EtaDue == iter_t % NofF(f) = 1

\* lines 81-119: one step on the drawn sample j.  gradients[j,:] with j a 0-d
\* array is a copy, so g_j keeps the old row after the store of line 91; phi.prox
\* asserts alpha > 0 after the table has been updated
SagaStep ==
    /\ pc = "saga_step"
    /\ \E j \in 0..(NofF(f) - 1) :
          LET N     == NofF(f)
              gn    == SampleGradient(f, x_t, j)
              g_j   == gradients[j]
              old_g == [k \in 1..NCols(f) |-> g_sum[k] - g_j[k]]
              w_t   == [k \in 1..NCols(f) |-> x_t[k] - FMul(alpha_t, gn[k] + old_g[k])]
              new_x == prox(phi, w_t, alpha_t)
              xs    == Append(hist.x_hist, new_x)
              xm    == compute_x_mean(xs)
          IN  /\ rng' = Append(rng, j)
              /\ gradients' = [gradients EXCEPT ![j] = gn]
              /\ g_sum' = [k \in 1..NCols(f) |-> g_sum[k] - RDiv(g_j[k], N) + RDiv(gn[k], N)]
              /\ IF ~(alpha_t > 0)
                 THEN /\ SagaRaise("AssertionError")
                      /\ UNCHANGED <<x_t, eta, hist, x_mean>>
                 ELSE /\ x_t' = new_x
                      /\ eta' = IF EtaDue THEN stop_scikit_saga(new_x, x_old) ELSE eta
                      /\ hist' = [hist EXCEPT
                                    !.runtime = IF measure THEN Append(@, "seconds") ELSE @,
                                    !.x_hist = xs,
                                    !.step_sizes = Append(@, alpha_t),
                                    !.obj = IF measure /\ EtaDue THEN Append(@, Psi(new_x)) ELSE @,
                                    !.obj2 = IF measure /\ EtaDue THEN Append(@, PsiMean(xm)) ELSE @]
                      /\ x_mean' = IF measure /\ EtaDue THEN xm ELSE x_mean
                      /\ pc' = "saga_loop"
                      /\ UNCHANGED err
    /\ UNCHANGED <<args, params, status, x_old, alpha_t, iter_t, warned, ret, outside_saga>>

\* the info record of the return statement of saga
SagaInfo ==
    [objective |-> hist.obj, objective_mean |-> hist.obj2, iterates |-> hist.x_hist,
     step_sizes |-> hist.step_sizes, gradient_table |-> gradients, runtime |-> hist.runtime]

\* lines 122-131: the final status, the two prints, the info record, the return
SagaAfterLoop ==
    /\ pc = "saga_after"
    /\ status' = IF FrGt(eta, tol) THEN "max iterations reached" ELSE status
    /\ IF iter_t = -1
       THEN SagaRaise("UnboundLocalError") /\ UNCHANGED ret
       ELSE IF hist.x_hist = <<>>
            THEN SagaRaise("ValueError") /\ UNCHANGED ret
            ELSE /\ ret' = <<[x_t |-> x_t, x_mean |-> x_mean, info |-> SagaInfo]>>
                 /\ pc' = "saga_returned"
                 /\ UNCHANGED err
    /\ UNCHANGED <<args, params, eta, x_t, x_old, alpha_t, iter_t, hist, warned, gradients,
                   g_sum, x_mean, rng, outside_saga>>

SagaNext ==
    \/ SagaEntry
    \/ SagaLoopHead
    \/ SagaStep
    \/ SagaAfterLoop

SagaSpec == SagaInit /\ [][SagaNext]_vars

\* a call of either solver
SolverSpec == (Init \/ SagaInit) /\ [][Next \/ SagaNext]_vars

\* ------------------------------------------------------------------------
\* calls of the helpers on their own: fn_call = <<name, arguments>> is the
\* call, fn_res = <<[raised, value]>> what it raised ("" for nothing) or returned
\* ------------------------------------------------------------------------

\* the variables of the solvers, which a helper call leaves alone
solver_vars ==
    <<f, phi, x0, tol, measure, verbose, caller, params, pc, err, status, eta,
      x_t, x_old, alpha_t, iter_t, batch_size, xi, xi_tilde, full_g,
      this_iter_vr, reduce_variance, S, hist, sub, warned, ret,
      gradients, g_sum, x_mean, rng>>

\* no solver is running
NoSolver ==
    /\ f = TwoSamples
    /\ phi \in Phis
    /\ x0 = <<>>
    /\ tol = Inf
    /\ measure = FALSE
    /\ verbose = FALSE
    /\ caller = <<>>
    /\ params = <<>>
    /\ pc = "helper"
    /\ err = ""
    /\ status = ""
    /\ eta = Inf
    /\ x_t = <<>>
    /\ x_old = <<>>
    /\ alpha_t = 0
    /\ iter_t = -1
    /\ batch_size = <<>>
    /\ xi = <<>>
    /\ xi_tilde = <<>>
    /\ full_g = <<>>
    /\ this_iter_vr = <<>>
    /\ reduce_variance = FALSE
    /\ S = <<>>
    /\ hist = EmptyHist
    /\ sub = NoSub
    /\ warned = <<>>
    /\ ret = <<>>
    /\ gradients = <<>>
    /\ g_sum = <<>>
    /\ x_mean = <<>>
    /\ rng = <<>>

Returned(v) == <<[raised |-> "", value |-> v]>>

Raised(e) == <<[raised |-> e, value |-> <<>>]>>

\* the helper fn is called and has not ended
Calling(fn) == pc = "helper" /\ fn_call # <<>> /\ fn_call[1] = fn /\ fn_res = <<>>

\* the call of helper fn has ended
Called(fn) == pc = "helper" /\ fn_call # <<>> /\ fn_call[1] = fn /\ fn_res # <<>>

\* largest N and largest size of the calls of sampler
MaxN == 3

MaxSize == 4

SamplerCalls == { <<"sampler", [N |-> n, size |-> b]>> : n \in 1..MaxN, b \in 1..MaxSize }

\* sampler(N, size, replace = True) (lines 16-29): the results it can end with
sampler_call(N, size) ==
    IF ~(size <= N) THEN {Raised("AssertionError")}
    ELSE {Returned(sq) : sq \in sampler(N, size)}

Call_sampler ==
    /\ Calling("sampler")
    /\ fn_res' \in sampler_call(fn_call[2].N, fn_call[2].size)
    /\ UNCHANGED <<solver_vars, fn_call, harness>>

\* largest batch size, longest short run, and the number of run lengths past a
\* cutoff, of the schedules computed on their own
MaxBatch == 7

MaxShortRun == 9

MaxOver == 3

\* lines 228-235 with the params of a call: short runs, runs that end at the
\* cutoff or later, and batch_size = 50 over 30 iterations
ScheduleCalls ==
    { <<"batch_size", [sample_style |-> st, batch_size |-> bs, max_iter |-> mi]>> :
        st \in {"increasing", "fast_increasing", "constant"}, bs \in 1..MaxBatch,
        mi \in 0..MaxShortRun }
    \cup { <<"batch_size", [sample_style |-> "increasing", batch_size |-> bs, max_iter |-> mi]>> :
        bs \in 1..MaxBatch, mi \in (IncreasingCutoff + 1)..(IncreasingCutoff + MaxOver) }
    \cup { <<"batch_size", [sample_style |-> "fast_increasing", batch_size |-> bs, max_iter |-> mi]>> :
        bs \in 1..MaxBatch, mi \in (FastCutoff + 1)..(FastCutoff + MaxOver) }
    \cup { <<"batch_size", [sample_style |-> "fast_increasing", batch_size |-> 50, max_iter |-> 30]>> }

Call_batch_size ==
    /\ Calling("batch_size")
    /\ fn_res' \in {Returned(sq) : sq \in BatchSchedule(fn_call[2])}
    /\ UNCHANGED <<solver_vars, fn_call, harness>>

\* half-width of the grid of points of the calls of the 1-norm, in steps of
\* SC \div 2
MaxGrid == 3

Grid1 == { k * (SC \div 2) : k \in (-MaxGrid)..MaxGrid }

\* x = [3, -1, 0.5, -2.5]
FourPoint == <<3 * SC, -SC, SC \div 2, -((5 * SC) \div 2)>>

\* the calls of Norm1(lambda1).prox, .jacobian_prox and .moreau
NormCalls ==
    { <<meth, [phi |-> [name |-> "1norm", lambda1 |-> l1], x |-> xx, alpha |-> a]>> :
        meth \in {"prox", "jacobian_prox", "moreau"},
        l1 \in {SC, SC \div 10},
        xx \in {FourPoint} \cup (Grid1 \X Grid1),
        a \in {2 * SC, SC \div 2, 0, -SC} }

\* np.diag(d)
np_diag(d) == [i \in 1..Len(d) |-> [j \in 1..Len(d) |-> IF i = j THEN d[i] ELSE 0]]

\* prox with the assertion of line 127 left out
prox_unchecked(ph, x, alpha) == Returned(prox(ph, x, alpha))

\* Norm1.prox (lines 123-129)
prox_call(ph, x, alpha) ==
    IF ~(alpha > 0) THEN Raised("AssertionError") ELSE Returned(prox(ph, x, alpha))

\* Norm1.jacobian_prox (lines 131-136)
jacobian_prox_call(ph, x, alpha) ==
    IF ~(alpha > 0) THEN Raised("AssertionError")
    ELSE Returned(np_diag(jacobian_prox(ph, x, alpha)))

\* Norm1.moreau (lines 138-141)
moreau_call(ph, x, alpha) ==
    IF ~(alpha > 0) THEN Raised("AssertionError") ELSE Returned(moreau(ph, x, alpha))

Call_prox ==
    /\ Calling("prox")
    /\ fn_res' = prox_call(fn_call[2].phi, fn_call[2].x, fn_call[2].alpha)
    /\ UNCHANGED <<solver_vars, fn_call, harness>>

Call_jacobian_prox ==
    /\ Calling("jacobian_prox")
    /\ fn_res' = jacobian_prox_call(fn_call[2].phi, fn_call[2].x, fn_call[2].alpha)
    /\ UNCHANGED <<solver_vars, fn_call, harness>>

Call_moreau ==
    /\ Calling("moreau")
    /\ fn_res' = moreau_call(fn_call[2].phi, fn_call[2].x, fn_call[2].alpha)
    /\ UNCHANGED <<solver_vars, fn_call, harness>>

\* ------------------------------------------------------------------------
\* block_lsq: f_i(z) = ||z - b_i||^2 on the block b_i = b[ixx == i] of m[i]
\* entries; a record [name, b, m]
\* ------------------------------------------------------------------------
RECURSIVE BlockStart(_, _)
BlockStart(m, i) == IF i = 0 THEN 0 ELSE m[i] + BlockStart(m, i - 1)

\* self.b[self.ixx == i]
BlockOf(ff, i) == SubSeq(ff.b, BlockStart(ff.m, i) + 1, BlockStart(ff.m, i) + ff.m[i + 1])

block_lsq_g(ff, x, i) == [k \in 1..Len(x) |-> 2 * (x[k] - BlockOf(ff, i)[k])]

\* fstar, at scale SC * SC
block_lsq_fstar(ff, x, i) == RDiv(Dot(x, x), 4) + Dot(BlockOf(ff, i), x)

block_lsq_gstar(ff, x, i) == [k \in 1..Len(x) |-> RDiv(x[k], 2) + BlockOf(ff, i)[k]]

\* .5 * np.eye(m[i]), a matrix of fractions
block_lsq_Hstar(ff, x, i) ==
    [j \in 1..ff.m[i + 1] |-> [k \in 1..ff.m[i + 1] |-> IF j = k THEN <<1, 2>> ELSE <<0, 1>>]]

\* ------------------------------------------------------------------------
\* logistic_loss: f_i(z) = log(1 + exp(-z)), in exact arithmetic.  The dual
\* argument is a fraction <<num, den>>, den > 0; z = log(p/q) is the pair
\* <<p, q>>; a sum of logarithms of whole numbers is the vector of the
\* coefficients of log 2, log 3, log 5, log 7
\* ------------------------------------------------------------------------
Primes == {2, 3, 5, 7}

RECURSIVE Exponent(_, _)
Exponent(n, r) == IF n % r = 0 THEN 1 + Exponent(n \div r, r) ELSE 0

\* np.log(n) for a whole number n >= 1
PrimeLog(n) == [r \in Primes |-> Exponent(n, r)]

RECURSIVE Gcd(_, _)
Gcd(a, b) == IF b = 0 THEN a ELSE Gcd(b, a % b)

\* the fraction n/d in lowest terms, d > 0
Reduced(n, d) == <<n \div Gcd(Abs(n), d), d \div Gcd(Abs(n), d)>>

\* -1 / (1 + np.exp(x)) at x = log(p/q)
logistic_g(z) == Reduced(-z[2], z[1] + z[2])

\* fstar: [tag |-> "inf"] outside [-1, 0], else the value v / den as a sum of
\* logarithms; 0 at the two ends
logistic_fstar(x) ==
    LET a == -x[1]
        c == x[2]
    IN  IF x[1] > 0 \/ x[1] < -x[2] THEN [tag |-> "inf", den |-> 1, v |-> PrimeLog(1)]
        ELSE IF x[1] = 0 \/ x[1] = -x[2] THEN [tag |-> "logs", den |-> 1, v |-> PrimeLog(1)]
        ELSE [tag |-> "logs", den |-> c,
              v |-> [r \in Primes |-> a * Exponent(a, r) + (c - a) * Exponent(c - a, r)
                                        - c * Exponent(c, r)]]

\* a wrong conjugate derivative: log(-x / (1 + x)), the sign turned
logistic_gstar_neg(x) ==
    IF x[1] > 0 \/ x[1] < -x[2] THEN [tag |-> "inf", v |-> PrimeLog(1), s |-> 1]
    ELSE IF x[1] = 0 \/ x[1] = -x[2]
         THEN [tag |-> "big", v |-> PrimeLog(1), s |-> IF 2 * x[1] + x[2] > 0 THEN 1 ELSE -1]
    ELSE [tag |-> "log", s |-> 1,
          v |-> [r \in Primes |-> Exponent(-x[1], r) - Exponent(x[2] + x[1], r)]]

\* gstar: inf outside [-1, 0], sign(x + .5) * 1e8 at the ends, else
\* log(-(1 + x) / x) as a sum of logarithms
logistic_gstar(x) ==
    IF x[1] > 0 \/ x[1] < -x[2] THEN [tag |-> "inf", v |-> PrimeLog(1), s |-> 1]
    ELSE IF x[1] = 0 \/ x[1] = -x[2]
         THEN [tag |-> "big", v |-> PrimeLog(1), s |-> IF 2 * x[1] + x[2] > 0 THEN 1 ELSE -1]
    ELSE [tag |-> "log", s |-> 1,
          v |-> [r \in Primes |-> Exponent(x[2] + x[1], r) - Exponent(-x[1], r)]]

\* Hstar, a fraction: inf outside [-1, 0], 1e8 at the ends, else -1 / (x^2 + x)
logistic_Hstar(x) ==
    IF x[1] > 0 \/ x[1] < -x[2] THEN Inf
    ELSE IF x[1] = 0 \/ x[1] = -x[2] THEN <<Surrogate, 1>>
    ELSE Reduced(x[2] * x[2], -(x[1] * x[1] + x[1] * x[2]))

\* ------------------------------------------------------------------------
\* the conjugate pairs of the three losses evaluated at a dual point x and a
\* primal point z
\* ------------------------------------------------------------------------

\* largest denominator of the dual points of the logistic loss
MaxDen == 8

\* a block loss with a block of two entries and a block of one
TwoBlocks == [name |-> "block_lsq", b |-> <<SC, -2 * SC, 3 * SC>>, m |-> <<2, 1>>]

\* even grid values, so that x / 2 and x^2 / 4 are exact
EvenGrid == { 2 * k * (SC \div 8) : k \in (-MaxGrid)..MaxGrid }

ConjugateCalls ==
    { <<"lsq", [f |-> TwoSamples, i |-> ii, x |-> xx, z |-> zz]>> :
        ii \in 0..1, xx \in EvenGrid, zz \in EvenGrid }
    \cup { <<"block_lsq", [f |-> TwoBlocks, i |-> 0, x |-> xx, z |-> zz]>> :
        xx \in EvenGrid \X EvenGrid, zz \in { <<0, 0>>, <<SC, -SC>> } }
    \cup { <<"block_lsq", [f |-> TwoBlocks, i |-> 1, x |-> <<xx>>, z |-> <<zz>>]>> :
        xx \in EvenGrid, zz \in EvenGrid }
    \cup { <<"logistic", [x |-> <<-a, c>>, z |-> <<pp, qq>>]>> :
        c \in {MaxDen}, a \in (-1)..(MaxDen + 1), pp \in 1..(MaxDen - 1), qq \in 1..(MaxDen - 1) }

Call_lsq ==
    /\ Calling("lsq")
    /\ LET c == fn_call[2]
       IN  fn_res' = Returned([g |-> g(c.f, c.z, c.i), fstar |-> fstar(c.f, c.x, c.i),
                               gstar |-> gstar(c.f, c.x, c.i), Hstar |-> Hstar(c.f, c.x, c.i),
                               back |-> gstar(c.f, g(c.f, c.z, c.i), c.i)])
    /\ UNCHANGED <<solver_vars, fn_call, harness>>

Call_block_lsq ==
    /\ Calling("block_lsq")
    /\ LET c == fn_call[2]
       IN  fn_res' = Returned([g |-> block_lsq_g(c.f, c.z, c.i),
                               fstar |-> block_lsq_fstar(c.f, c.x, c.i),
                               gstar |-> block_lsq_gstar(c.f, c.x, c.i),
                               Hstar |-> block_lsq_Hstar(c.f, c.x, c.i),
                               back |-> block_lsq_gstar(c.f, block_lsq_g(c.f, c.z, c.i), c.i)])
    /\ UNCHANGED <<solver_vars, fn_call, harness>>

Call_logistic ==
    /\ Calling("logistic")
    /\ LET c == fn_call[2]
       IN  fn_res' = Returned([g |-> logistic_g(c.z), fstar |-> logistic_fstar(c.x),
                               gstar |-> logistic_gstar(c.x), Hstar |-> logistic_Hstar(c.x),
                               back |-> logistic_gstar(logistic_g(c.z))])
    /\ UNCHANGED <<solver_vars, fn_call, harness>>

\* get_default_spp_params(f) for the losses of the calls of the two solvers
DefaultCalls == { <<"get_default_spp_params", [f |-> ff]>> : ff \in Losses \cup {OneSample} }

Call_get_default_spp_params ==
    /\ Calling("get_default_spp_params")
    /\ fn_res' = Returned(get_default_spp_params(fn_call[2].f))
    /\ UNCHANGED <<solver_vars, fn_call, harness>>

\* ------------------------------------------------------------------------
\* the helper functions called on their own, one call per behaviour
\* ------------------------------------------------------------------------
HelperCalls == SamplerCalls \cup ScheduleCalls \cup NormCalls \cup ConjugateCalls
               \cup DefaultCalls

HelperInit ==
    /\ NoSolver
    /\ fn_call \in HelperCalls
    /\ fn_res = <<>>
    /\ harness = <<>>

HelperNext ==
    \/ Call_sampler
    \/ Call_batch_size
    \/ Call_prox
    \/ Call_jacobian_prox
    \/ Call_moreau
    \/ Call_lsq
    \/ Call_block_lsq
    \/ Call_logistic
    \/ Call_get_default_spp_params

HelperSpec == HelperInit /\ [][HelperNext]_vars

\* ------------------------------------------------------------------------
\* the tuning harnesses do_grid_run (stability_utils.py) and params_tuner
\* (experiment_utils.py); problem(...).solve is the collaborator they call:
\* it raises, or returns an info with an objective history, a runtime history
\* and the step sizes
\* ------------------------------------------------------------------------

\* np.nan
NaN == -PosInf

\* the running harness call
H == harness[1]

\* largest number of repetitions per cell
MaxRep == 2

\* (K, L): the numbers of batch sizes and of step sizes of the grids explored
GridShapes == { <<1, 1>>, <<1, 2>>, <<2, 1>> }

\* the step sizes and the batch fractions (in 1/SC) the grids are cut from
StepSizes == <<SC \div 10, SC>>

BatchSizes == <<1, 2>>

\* psi_star = 1 and the default psi_tol = 1e-3
PsiStar == SC

PsiTol == <<1, 1000>>

\* what one P.solve can end with: an exception, or an objective history that
\* reaches psi_star * (1 + psi_tol) at its second entry, at its first entry
\* (exactly on the threshold), or never; one time unit per entry
SolveOutcomes ==
    { [raised |-> TRUE, objective |-> <<>>, runtime |-> <<>>] }
    \cup { [raised |-> FALSE, objective |-> o, runtime |-> <<1, 1>>] :
             o \in { <<SC + 5, SC>>, <<SC + 4, SC + 5>>, <<SC + 5, 2 * SC>> } }

\* obj <= psi_star * (1 + psi_tol)
Reached(obj, psi_star, psi_tol) ==
    obj * psi_tol[2] <= psi_star * (psi_tol[2] + psi_tol[1])

\* np.where(obj_arr <= psi_star * (1 + psi_tol))[0]: the 0-based positions
WhereReached(obj_arr, psi_star, psi_tol) ==
    { i \in 0..(Len(obj_arr) - 1) : Reached(obj_arr[i + 1], psi_star, psi_tol) }

MinOf(T) == CHOOSE v \in T : \A w \in T : v <= w

\* runtime.cumsum()[stop]
CumsumAt(runtime, stop) == SumSeq(SubSeq(runtime, 1, stop + 1))

\* np.mean of a non-empty list that may hold np.inf
MeanOf(s) ==
    IF \E i \in 1..Len(s) : s[i] = PosInf THEN PosInf ELSE RDiv(SC * SumSeq(s), Len(s))

\* the cells (k, l) of a K x L grid
Cells(K, L) == (0..(K - 1)) \X (0..(L - 1))

GridCalls ==
    { [solver |-> s, step_size_range |-> SubSeq(StepSizes, 1, sh[2]),
       batch_size_range |-> SubSeq(BatchSizes, 1, sh[1]),
       psi_star |-> PsiStar, psi_tol |-> PsiTol, n_rep |-> n] :
        s \in {"snspp", "saga"}, sh \in GridShapes, n \in 1..MaxRep }

\* do_grid_run, lines 98-117: the locals before the first repetition
GridStart(c) ==
    LET K == Len(c.batch_size_range)
        L == Len(c.step_size_range)
    IN  [kind |-> "do_grid_run", call |-> c, at |-> "rep", err |-> "", ret |-> <<>>,
         K |-> K, L |-> L, k |-> 0, l |-> 0, j_rep |-> 0,
         this_obj |-> <<>>, this_time |-> <<>>, this_stop_iter |-> <<>>,
         this_alpha |-> <<>>,
         ALPHA |-> c.step_size_range,
         RTIME |-> [cl \in Cells(K, L) |-> PosInf],
         OBJ |-> [cl \in Cells(K, L) |-> PosInf],
         CONVERGED |-> [cl \in Cells(K, L) |-> FALSE],
         NITER |-> [cl \in Cells(K, L) |-> PosInf],
         solved |-> [cl \in Cells(K, L) |-> <<>>]]

\* the except clause, lines 165-170: the failure is recorded as np.inf, and the
\* step size of the repetition as np.nan
SolverFailed(h) ==
    [h EXCEPT !.this_stop_iter = Append(@, PosInf), !.this_time = Append(@, PosInf),
              !.this_obj = Append(@, PosInf), !.this_alpha = <<NaN>>]

\* the try body, lines 137-164, for a solve that returned info
Solved(h, info) ==
    LET c == h.call
        obj_arr == info.objective
        hit == WhereReached(obj_arr, c.psi_star, c.psi_tol)
        first == MinOf(hit)
        stop == IF c.solver # "snspp" /\ first > 0 THEN first - 1 ELSE first
        a == [h EXCEPT !.this_alpha = <<c.step_size_range[h.l + 1]>>]
    IN  IF hit # {}
        THEN [a EXCEPT !.this_stop_iter = Append(@, stop),
                       !.this_time = Append(@, CumsumAt(info.runtime, stop)),
                       !.this_obj = Append(@, Last(obj_arr))]
        ELSE [a EXCEPT !.this_stop_iter = Append(@, PosInf),
                       !.this_time = Append(@, PosInf),
                       !.this_obj = Append(@, Last(obj_arr))]

\* one repetition of the cell (k, l): lines 134-170
GridRepetition ==
    /\ harness # <<>> /\ H.kind = "do_grid_run" /\ H.at = "rep"
    /\ \E out \in SolveOutcomes :
          LET h1 == IF out.raised THEN SolverFailed(H) ELSE Solved(H, out)
              h2 == [h1 EXCEPT !.j_rep = @ + 1,
                               !.solved[<<H.k, H.l>>] = Append(@, out),
                               !.at = IF H.j_rep + 1 < H.call.n_rep THEN "rep" ELSE "cell"]
          IN  harness' = <<h2>>
    /\ UNCHANGED <<solver_vars, fn_call, fn_res>>

\* the cell is converged if all its repetitions converged (line 173)
AllConverged(stops) == \A i \in 1..Len(stops) : stops[i] # PosInf

\* the end of the cell (k, l), lines 173-180, and the step to the next cell
GridCell ==
    /\ harness # <<>> /\ H.kind = "do_grid_run" /\ H.at = "cell"
    /\ LET cl == <<H.k, H.l>>
           h1 == [H EXCEPT !.CONVERGED[cl] = AllConverged(H.this_stop_iter),
                           !.OBJ[cl] = MeanOf(H.this_obj),
                           !.RTIME[cl] = MeanOf(H.this_time),
                           !.NITER[cl] = MeanOf(H.this_stop_iter),
                           !.ALPHA[H.l + 1] = H.this_alpha[1],
                           !.this_obj = <<>>, !.this_time = <<>>,
                           !.this_stop_iter = <<>>, !.j_rep = 0, !.at = "rep"]
           h2 == IF H.k + 1 < H.K THEN [h1 EXCEPT !.k = @ + 1]
                 ELSE IF H.l + 1 < H.L THEN [h1 EXCEPT !.k = 0, !.l = @ + 1]
                 ELSE [h1 EXCEPT !.at = "end"]
       IN  harness' = <<h2>>
    /\ UNCHANGED <<solver_vars, fn_call, fn_res>>

\* lines 182-190: the two assertions and the returned dictionary
GridReturn ==
    /\ harness # <<>> /\ H.kind = "do_grid_run" /\ H.at = "end"
    /\ LET consistent == \A cl \in Cells(H.K, H.L) :
                             (H.RTIME[cl] # PosInf) = H.CONVERGED[cl]
           available == \A l \in 1..H.L : H.ALPHA[l] # NaN
       IN  IF consistent /\ available
           THEN harness' = <<[H EXCEPT !.at = "done",
                    !.ret = <<[step_size |-> H.ALPHA, batch_size |-> H.call.batch_size_range,
                               objective |-> H.OBJ, runtime |-> H.RTIME, n_iter |-> H.NITER,
                               converged |-> H.CONVERGED, solver |-> H.call.solver]>>]>>
           ELSE harness' = <<[H EXCEPT !.at = "done", !.err = "AssertionError"]>>
    /\ UNCHANGED <<solver_vars, fn_call, fn_res>>

\* params_tuner ------------------------------------------------------------

\* n_iter of the tuner calls
TunerIter == 2

TunerCalls ==
    { [solver |-> s, alpha_range |-> SubSeq(StepSizes, 1, n),
       batch_range |-> IF s = "saga" THEN <<1>> ELSE <<1, 2>>, n_iter |-> TunerIter] :
        s \in {"snspp", "saga", "adagrad"}, n \in 1..2 }

\* lines 120-130: the locals before the first cell
TunerStart(c) ==
    [kind |-> "params_tuner", call |-> c, at |-> "cell", err |-> "", ret |-> <<>>,
     bi |-> 1, ai |-> 1,
     tuner_params |-> IF c.solver = "snspp"
                      THEN [max_iter |-> c.n_iter, reduce_variance |-> TRUE]
                      ELSE [n_epochs |-> c.n_iter],
     res |-> << >>, raised |-> { },
     all_time_min |-> PosInf, current_best |-> <<>>, current_best_val |-> PosInf]

\* params[key] = value
SetKey(p, key, value) == [kk \in DOMAIN p \cup {key} |-> IF kk = key THEN value ELSE p[kk]]

\* np.nan * np.zeros(n)
NanArray(n) == [i \in 1..n |-> NaN]

\* min(a, v) and v <= a of Python, with v possibly np.nan (every comparison
\* with it is False)
PyMin(a, v) == IF v # NaN /\ v < a THEN v ELSE a

PyLe(v, a) == v # NaN /\ v <= a

ArrayMin(s) == IF \E i \in 1..Len(s) : s[i] = NaN THEN NaN ELSE MinOf({s[i] : i \in 1..Len(s)})

\* s[-5:].mean()
TailMean(s) ==
    LET tl == SubSeq(s, Max2(1, Len(s) - 4), Len(s))
    IN  IF \E i \in 1..Len(tl) : tl[i] = NaN THEN NaN ELSE RDiv(SumSeq(tl), Len(tl))

\* one cell (b, al) of params_tuner: lines 136-164. The solver fills its own
\* defaults into params, and they hold no n_epochs
TunerCell ==
    /\ harness # <<>> /\ H.kind = "params_tuner" /\ H.at = "cell"
    /\ \E out \in SolveOutcomes :
          LET c == H.call
              b == c.batch_range[H.bi]
              al == c.alpha_range[H.ai]
              p1 == SetKey(H.tuner_params, "alpha", al)
              p2 == IF c.solver # "saga" THEN SetKey(p1, "batch_size", b) ELSE p1
              info == IF out.raised
                      THEN [runtime |-> NanArray(p2.n_epochs),
                            objective |-> NanArray(p2.n_epochs)]
                      ELSE [runtime |-> out.runtime, objective |-> out.objective]
              this_val == TailMean(info.objective)
              better == PyLe(this_val, H.current_best_val)
              h1 == [H EXCEPT !.tuner_params = p2,
                              !.res = Append(@, [b |-> b, al |-> al, info |-> info]),
                              !.raised = IF out.raised THEN @ \cup {<<b, al>>} ELSE @,
                              !.all_time_min = PyMin(@, ArrayMin(info.objective)),
                              !.current_best = IF better THEN <<b, al>> ELSE @,
                              !.current_best_val = IF better THEN this_val ELSE @]
              h2 == IF H.ai < Len(c.alpha_range) THEN [h1 EXCEPT !.ai = @ + 1]
                    ELSE IF H.bi < Len(c.batch_range) THEN [h1 EXCEPT !.ai = 1, !.bi = @ + 1]
                    ELSE [h1 EXCEPT !.at = "end"]
          IN  IF out.raised /\ "n_epochs" \notin DOMAIN p2
              THEN harness' = <<[H EXCEPT !.tuner_params = p2, !.at = "done",
                                          !.raised = @ \cup {<<b, al>>},
                                          !.err = "KeyError"]>>
              ELSE harness' = <<h2>>
    /\ UNCHANGED <<solver_vars, fn_call, fn_res>>

\* line 213, after the plot
TunerReturn ==
    /\ harness # <<>> /\ H.kind = "params_tuner" /\ H.at = "end"
    /\ harness' = <<[H EXCEPT !.at = "done",
                              !.ret = <<[res |-> H.res, current_best |-> H.current_best,
                                         alpha_range |-> H.call.alpha_range]>>]>>
    /\ UNCHANGED <<solver_vars, fn_call, fn_res>>

HarnessInit ==
    /\ NoSolver
    /\ fn_call = <<>>
    /\ fn_res = <<>>
    /\ harness \in { <<GridStart(c)>> : c \in GridCalls }
                   \cup { <<TunerStart(c)>> : c \in TunerCalls }

HarnessNext ==
    \/ GridRepetition
    \/ GridCell
    \/ GridReturn
    \/ TunerCell
    \/ TunerReturn

HarnessSpec == HarnessInit /\ [][HarnessNext]_vars

\* ------------------------------------------------------------------------
\* a session of calls: the default value `params = dict()` of
\* stochastic_prox_point, of saga and of problem.__init__ is one dict object
\* per function, created when the function is defined and shared by all its
\* calls; each solver updates the dict it is given in place
\* ------------------------------------------------------------------------

\* largest number of calls of a session
MaxCalls == 2

\* dict()
EmptyDict == [kk \in {} |-> 0]

SessionLosses == {TwoSamples, OneSample, LogisticLoss}

\* the params argument of a call: <<>> if it is left out, or <<the caller's dict>>
SessionArgs ==
    { <<>>, <<[alpha |-> SC \div 4]>>, <<[alpha |-> SC \div 4, n_epochs |-> 2]>>,
      <<[max_iter |-> 2]>> }

SessionStart ==
    [kind |-> "session", n_calls |-> 0,
     spp_default |-> EmptyDict, saga_default |-> EmptyDict, problem_default |-> EmptyDict,
     last |-> <<>>]

\* what a solver does to the dict it is given: spp_solver.py lines 219-220,
\* saga.py lines 34-38
Updated(solver, ff, p) ==
    IF solver = "stochastic_prox_point" THEN ParamsUpdate(p, get_default_spp_params(ff))
    ELSE SagaParamsUpdate(p)

\* the step size the solver starts with: spp_solver.py line 223, saga.py lines 40-50
StepUsed(solver, ff, p) ==
    IF solver = "stochastic_prox_point" THEN p.alpha ELSE SagaAlpha(ff, p)

\* the record of a call: the dict it worked on before and after its update
CallRecord(fn, solver, ff, arg, before) ==
    LET after == Updated(solver, ff, before)
    IN  [fn |-> fn, solver |-> solver, f |-> ff, arg |-> arg, before |-> before,
         params |-> after, alpha |-> StepUsed(solver, ff, after)]

\* stochastic_prox_point(f, phi, x0[, params = arg]): line 134 and lines 216-223
SessionCallSpp ==
    /\ harness # <<>> /\ H.kind = "session" /\ H.n_calls < MaxCalls
    /\ \E ff \in SessionLosses, arg \in SessionArgs :
          LET c == CallRecord("stochastic_prox_point", "stochastic_prox_point", ff, arg,
                              IF arg = <<>> THEN H.spp_default ELSE arg[1])
          IN  harness' = <<[H EXCEPT !.n_calls = @ + 1, !.last = <<c>>,
                                     !.spp_default = IF arg = <<>> THEN c.params ELSE @]>>
    /\ UNCHANGED <<solver_vars, fn_call, fn_res>>

\* saga(f, phi, x0[, params = arg]): saga.py lines 11-50
SessionCallSaga ==
    /\ harness # <<>> /\ H.kind = "session" /\ H.n_calls < MaxCalls
    /\ \E ff \in SessionLosses, arg \in SessionArgs :
          LET c == CallRecord("saga", "saga", ff, arg,
                              IF arg = <<>> THEN H.saga_default ELSE arg[1])
          IN  harness' = <<[H EXCEPT !.n_calls = @ + 1, !.last = <<c>>,
                                     !.saga_default = IF arg = <<>> THEN c.params ELSE @]>>
    /\ UNCHANGED <<solver_vars, fn_call, fn_res>>

\* problem(f, phi[, params = arg]).solve(solver): opt_problem.py lines 26-56;
\* self.params is the dict it was given, and the solver gets that dict
SessionCallProblem ==
    /\ harness # <<>> /\ H.kind = "session" /\ H.n_calls < MaxCalls
    /\ \E ff \in SessionLosses, arg \in SessionArgs, solver \in {"ssnsp", "saga_pure"} :
          LET c == CallRecord("problem",
                              IF solver = "ssnsp" THEN "stochastic_prox_point" ELSE "saga",
                              ff, arg, IF arg = <<>> THEN H.problem_default ELSE arg[1])
          IN  harness' = <<[H EXCEPT !.n_calls = @ + 1, !.last = <<c>>,
                                     !.problem_default = IF arg = <<>> THEN c.params ELSE @]>>
    /\ UNCHANGED <<solver_vars, fn_call, fn_res>>

SessionInit ==
    /\ NoSolver
    /\ fn_call = <<>>
    /\ fn_res = <<>>
    /\ harness = <<SessionStart>>

SessionNext ==
    \/ SessionCallSpp
    \/ SessionCallSaga
    \/ SessionCallProblem

SessionSpec == SessionInit /\ [][SessionNext]_vars

\* ------------------------------------------------------------------------
\* properties
\* ------------------------------------------------------------------------

\* the number of outer iterations executed so far
Executed == Len(hist.x_hist)


\* the positions inside an outer iteration, after its termination check
InIteration == {"sample", "vr", "solve", "newton", "armijo", "sub_done"}

\* the positions inside solve_subproblem, after its checks
InSubproblem == {"newton", "armijo", "sub_done"}

\* the params dict with the defaults filled in
EffParams ==
    IF pc = "entry" THEN ParamsUpdate(params, get_default_spp_params(f)) ELSE params

\* C1: when the call returns, status is 'optimal' if the last computed eta is
\* <= tol and 'max iterations reached' otherwise; no other value is left in it.
C1_StatusAtReturn ==
    pc = "returned" =>
        status = (IF FrLe(eta, tol) THEN "optimal" ELSE "max iterations reached")

\* the call returns with status 'not optimal': eta fell to tol in the last
\* permitted iteration
C1_NotOptimalReturned ==
    /\ pc = "returned"
    /\ status = "not optimal"
    /\ FrLe(eta, tol)
    /\ Executed = params.max_iter

\* C2: once an iteration has produced eta <= tol, the next termination check
\* leaves the loop without sampling, refreshing or solving, and the call
\* returns the iterate of that iteration; work inside an iteration is only
\* done after a check that saw eta > tol; with max_iter >= 1 and tol finite
\* the first check enters iteration 0.
C2_Step ==
    /\ (pc = "loop" /\ FrLe(eta, tol)) =>
          /\ pc' = "after"
          /\ UNCHANGED <<S, xi, xi_tilde, full_g, x_t, hist, sub, alpha_t>>
    /\ (pc = "after" /\ FrLe(eta, tol) /\ pc' = "returned") =>
          /\ ret'[1].x_t = Last(hist.x_hist)
          /\ eta = stop_scikit_saga(Last(hist.x_hist), x_old)
    /\ (pc' \in InIteration) => FrGt(eta, tol)
    /\ (pc = "loop" /\ iter_t = -1 /\ params.max_iter >= 1 /\ ~IsInf(tol)) =>
          (pc' = "sample" /\ iter_t' = 0)

C2_StopsAtTol == [][C2_Step]_vars

\* a call with a finite tol returned 'optimal' before max_iter iterations ran
C2_StoppedEarly ==
    /\ pc = "returned"
    /\ status = "optimal"
    /\ ~IsInf(tol)
    /\ Executed >= 1
    /\ Executed < params.max_iter

\* the Newton cap of the call
NewtonCap ==
    LET np == EffParams.newton_params
    IN  IF np = <<>> THEN get_default_newton_params.max_iter ELSE np[1].max_iter

\* steps one Newton iteration takes at most: its head, the shrinks, its update
NewtonCost == MaxShrink + 2

\* steps one outer iteration takes at most
IterCost == NewtonCap * NewtonCost + 6

\* the shrinks of beta made so far in the running backtracking loop
Shrinks == LogRatio(sub.beta, newton_params.rho)

\* an upper bound on the steps the call still takes
Rank ==
    LET base == 2 + (EffParams.max_iter - 1 - iter_t) * IterCost
    IN  CASE pc \in {"returned", "error"} -> 0
          [] pc = "after"    -> 1
          [] pc = "entry"    -> base + 1
          [] pc = "loop"     -> base
          [] pc = "sample"   -> base + IterCost - 1
          [] pc = "vr"       -> base + IterCost - 2
          [] pc = "solve"    -> base + IterCost - 3
          [] pc = "newton"   -> base + 2 + (NewtonCap - sub.sub_iter) * NewtonCost
          [] pc = "armijo"   -> base + 3 + (NewtonCap - sub.sub_iter - 1) * NewtonCost
                                     + (MaxShrink - Shrinks)
          [] pc = "sub_done" -> base + 1

\* C3: every call terminates: every step lowers a bound on the steps to come
\* that never falls below zero, so the outer loop runs at most max_iter
\* iterations, a subproblem at most newton_params['max_iter'] Newton steps and
\* a backtracking loop finitely many shrinks, descent direction or not.
C3_Terminates ==
    [][/\ Rank' < Rank
       /\ Rank' >= 0
       /\ iter_t' < EffParams.max_iter
       /\ sub'.sub_iter <= NewtonCap
       /\ (pc' = "armijo") => (Shrinks' <= MaxShrink)]_vars

\* a call returned after a Newton step along a direction that is no descent
\* direction, whose backtracking loop shrank beta
C3_NoDescentReturned ==
    /\ pc = "returned"
    /\ \E k \in 1..Len(warned) : warned[k] = "No descent direction"
    /\ \E k \in 1..Len(hist.ssn_info) :
          \E j \in 1..Len(hist.ssn_info[k].step_size) :
             hist.ssn_info[k].step_size[j][2] > 1

\* the buffers of the history
C4_Buffers(h) ==
    <<h.x_hist, h.step_sizes, h.runtime, h.S_hist, h.ssn_info, h.num_eval, h.xi_hist>>

C4_Lengths ==
    /\ \A j \in 1..7 : Len(C4_Buffers(hist)[j]) = Executed
    /\ Len(hist.obj) = (IF measure THEN Executed ELSE 0)
    /\ \A k \in 1..Executed : Len(hist.x_hist[k]) = NCols(f)
    /\ pc # "entry" => Executed <= params.max_iter
    /\ pc = "returned" =>
          LET info == ret[1].info
          IN  /\ Len(info.iterates) = Executed
              /\ Len(info.step_sizes) = Executed
              /\ Len(info.runtime) = Executed
              /\ Len(info.samples) = Executed
              /\ Len(info.ssn_info) = Executed
              /\ Len(info.evaluations) = Executed
              /\ Len(info.xi_hist) = Executed
              /\ Len(info.objective) = (IF measure THEN Executed ELSE 0)
              /\ \A k \in 1..Executed : Len(info.iterates[k]) = NCols(f)
              /\ ret[1].x_t = Last(info.iterates)

\* a buffer is left alone or extended by one entry
C4_Grows(old, new) == new = old \/ (Len(new) = Len(old) + 1 /\ SubSeq(new, 1, Len(old)) = old)

\* C4: after k executed iterations every history buffer has k entries (the
\* objective k or 0, by measure), the iterates have length n; buffers only
\* grow, by one entry per executed iteration; the returned info carries the
\* buffers and the returned x is the last iterate.
C4_History ==
    [][/\ C4_Lengths'
       /\ \A j \in 1..7 : C4_Grows(C4_Buffers(hist)[j], C4_Buffers(hist')[j])
       /\ C4_Grows(hist.obj, hist'.obj)
       /\ (hist' # hist) <=> (pc = "sub_done" /\ pc' = "loop")]_vars

\* a call with measure set returned after three iterations
C4_ThreeRecorded ==
    /\ pc = "returned"
    /\ measure
    /\ Len(ret[1].info.objective) = 3
    /\ Len(ret[1].info.iterates) = 3

C6_DefaultsDocumented ==
    (pc # "entry" /\ {"reduce_variance", "m_iter", "tol_sub"} \cap DOMAIN caller = {}) =>
        /\ params.reduce_variance = TRUE
        /\ params.m_iter = 10
        /\ params.tol_sub = <<1, 1000>>

\* such a call returned without variance reduction: no snapshot was taken
C6_RanWithoutVR ==
    /\ pc = "returned"
    /\ "reduce_variance" \notin DOMAIN caller
    /\ params.reduce_variance = FALSE
    /\ params.m_iter = 10
    /\ params.tol_sub = <<1, 1000>>
    /\ xi_tilde = <<>>

\* C7: with variance reduction on, iteration t refreshes the snapshot exactly
\* when t mod m_iter = vr_skip, between the sampling and the solve of that
\* iteration, and for convex f sets the dual to the new snapshot; with
\* variance reduction off the snapshot and full_g stay unset.
C7_Step ==
    LET due == params.reduce_variance /\ iter_t % params.m_iter = params.vr_skip
    IN  /\ (pc = "vr" /\ due) =>
              /\ this_iter_vr' = <<TRUE>>
              /\ xi_tilde' = <<compute_full_xi(f, x_t)>>
              /\ full_g' # <<>>
              /\ Len(hist.S_hist) = iter_t
              /\ f.convex => (xi' = xi_tilde'[1] /\ pc' = "solve")
        /\ (pc = "vr" /\ ~due) =>
              /\ UNCHANGED <<xi_tilde, full_g, xi>>
              /\ this_iter_vr' # <<TRUE>>
        /\ (pc # "vr") => UNCHANGED <<xi_tilde, full_g, this_iter_vr>> \/ pc = "entry"
        /\ (pc # "entry" /\ ~params.reduce_variance) =>
              (xi_tilde' = <<>> /\ full_g' = <<>>)
        /\ (pc = "sample") => (pc' \in {"vr", "error"})

C7_RefreshSchedule == [][C7_Step]_vars

\* m_iter = 2: iteration 1 kept the snapshot of iteration 0, iteration 2 took
\* a new one and reset the dual to it
C7_SecondRefresh ==
    /\ pc = "solve"
    /\ iter_t = 2
    /\ params.reduce_variance
    /\ params.m_iter = 2
    /\ params.vr_skip = 0
    /\ f.convex
    /\ this_iter_vr = <<TRUE>>
    /\ xi = xi_tilde[1]
    /\ xi_tilde[1] = compute_full_xi(f, x_t)

\* (1/N) * A^T * xi_tilde, entry by entry
C8_Mean(xt) ==
    [k \in 1..NCols(f) |->
        RDiv(SumSeq([r \in 1..NofF(f) |-> f.A[r][k] * xt[r - 1]]), NofF(f))]

\* C8: whenever a snapshot is held, full_g = (1/N) * A^T * xi_tilde; the two
\* change only together, at a refresh, and no step of a subproblem solve
\* changes either.
C8_Step ==
    /\ (xi_tilde' # <<>>) => (full_g' = <<C8_Mean(xi_tilde'[1])>>)
    /\ (xi_tilde' = <<>>) <=> (full_g' = <<>>)
    /\ (xi_tilde' # xi_tilde \/ full_g' # full_g) =>
          (pc = "vr" /\ this_iter_vr' = <<TRUE>> /\ xi_tilde' # <<>> /\ full_g' # <<>>)
    /\ (pc \in {"solve"} \cup InSubproblem) => UNCHANGED <<xi_tilde, full_g>>

C8_SnapshotInvariant == [][C8_Step]_vars

\* a Newton step of an iteration without refresh has moved the dual away from
\* the snapshot, which is still held with its full_g
C8_SnapshotKept ==
    /\ pc = "newton"
    /\ sub.sub_iter >= 1
    /\ reduce_variance
    /\ this_iter_vr = <<FALSE>>
    /\ xi # xi_tilde[1]
    /\ full_g = <<C8_Mean(xi_tilde[1])>>
    /\ \E k \in 1..NCols(f) : full_g[1][k] # 0

\* C9: variance reduction requested for a non-convex loss on the general
\* solver raises at once: no subproblem is entered and no iterate produced,
\* whatever vr_skip and m_iter are.
C9_RaisedAtOnce ==
    (pc # "entry" /\ params.reduce_variance /\ ~f.convex /\ ~is_easy) =>
        /\ pc \notin {"solve"} \cup InSubproblem \cup {"returned"}
        /\ hist.x_hist = <<>>

\* such a call, with vr_skip = 1, produced the iterate of iteration 0 and
\* raised the KeyError in iteration 1
C9_RaisedLate ==
    /\ pc = "error"
    /\ err = "KeyError"
    /\ params.reduce_variance
    /\ ~f.convex
    /\ ~is_easy
    /\ params.vr_skip = 1
    /\ iter_t = 1
    /\ Len(hist.x_hist) = 1

\* the ranges of the Newton parameters and of the step size
C10_InRange(np, alpha) ==
    /\ np.mu[1] > 0  /\ 2 * np.mu[1] < np.mu[2]
    /\ np.eta[1] > 0 /\ np.eta[1] < np.eta[2]
    /\ np.tau[1] > 0 /\ np.tau[1] <= np.tau[2]
    /\ np.rho[1] > 0 /\ np.rho[1] < np.rho[2]
    /\ alpha > 0

\* C10: solve_subproblem entered with mu, eta, tau, rho or alpha out of range
\* raises before any Newton step, leaving the dual and the iterate alone; a
\* subproblem only runs with all of them in range; the defaults are in range.
C10_Step ==
    /\ (pc = "solve" /\ ~C10_InRange(newton_params, alpha_t)) =>
          /\ pc' = "error"
          /\ err' = "AssertionError"
          /\ UNCHANGED <<xi, x_t, hist, sub>>
    /\ (pc' \in InSubproblem) => C10_InRange(newton_params, alpha_t)
    /\ (pc = "solve" /\ params.newton_params = <<>> /\ alpha_t > 0) => (pc' # "error" \/ err' # "AssertionError")
    /\ C10_InRange(get_default_newton_params, 1)

C10_RangesChecked == [][C10_Step]_vars

\* a call with rho = 1 was refused at the entry of its first subproblem
C10_Refused ==
    /\ pc = "error"
    /\ err = "AssertionError"
    /\ iter_t = 0
    /\ params.newton_params # <<>>
    /\ params.newton_params[1].rho = <<1, 1>>
    /\ params.alpha > 0
    /\ xi = get_xi_start_point(f)
    /\ hist = EmptyHist

\* C11: a call of stochastic_prox_point or of saga whose x0 has not as many
\* entries as f.A has columns fails in its first step with the failed
\* assertion: the caller's params dict is as it was passed, no sample has been
\* drawn, no history entry and no row of the gradient table exists, and the
\* call goes no further.
C11_Step ==
    (Len(x0) # NCols(f)) =>
        /\ pc \in {"entry", "saga_entry"}
        /\ pc' \in {"error", "saga_error"}
        /\ err' = "AssertionError"
        /\ params' = caller
        /\ S' = <<>> /\ rng' = <<>>
        /\ hist' \in {EmptyHist, SagaEmptyHist}
        /\ gradients' = <<>>
        /\ xi' = <<>>
        /\ ret' = <<>>

C11_FailsAtEntry == [][C11_Step]_vars

\* saga refused a starting point of the wrong dimension, its params untouched
C11_SagaRefused ==
    /\ pc = "saga_error"
    /\ err = "AssertionError"
    /\ Len(x0) # NCols(f)
    /\ "n_epochs" \notin DOMAIN params
    /\ gradients = <<>>
    /\ hist.x_hist = <<>>

\* C12: for every N >= 1 and b >= 1 the batch sampler(N, b, replace = True)
\* returns has exactly b entries, each in 0..N-1, in ascending order.
C12_BatchDrawn ==
    Called("sampler") =>
        LET N  == fn_call[2].N
            b  == fn_call[2].size
            r  == fn_res[1]
        IN  /\ r.raised = ""
            /\ Len(r.value) = b
            /\ \A k \in 1..b : r.value[k] \in 0..(N - 1)
            /\ Sorted(r.value)

\* a batch of three was asked of two samples, and refused
C12_Refused ==
    /\ Called("sampler")
    /\ fn_call[2].N = 2
    /\ fn_call[2].size = 3
    /\ fn_res[1].raised = "AssertionError"

\* the schedule of a call with sample_style st
Scheduled(st) ==
    /\ Called("batch_size")
    /\ fn_call[2].sample_style = st
    /\ fn_res[1].raised = ""

NonDecreasing(v) == \A t \in 1..(Len(v) - 1) : v[t] <= v[t + 1]

\* C13: with sample_style 'fast_increasing' the batch sizes of t = 0..max_iter-1
\* are all >= 1, non-decreasing in t, constant from iteration 10 onward, and the
\* value from iteration 10 on equals params['batch_size'].
C13_FastIncreasing ==
    Scheduled("fast_increasing") =>
        LET v == fn_res[1].value
            T == fn_call[2].max_iter
        IN  /\ Len(v) = T
            /\ \A t \in 1..T : v[t] >= 1
            /\ NonDecreasing(v)
            /\ \A t \in (FastCutoff + 1)..T : v[t] = v[FastCutoff + 1]
            /\ T > FastCutoff => v[FastCutoff + 1] = fn_call[2].batch_size

\* batch_size = 7 over 12 iterations: the schedule stays at 6 from iteration 10 on
C13_FallsShort ==
    /\ Scheduled("fast_increasing")
    /\ fn_call[2].batch_size = 7
    /\ fn_call[2].max_iter = 12
    /\ fn_res[1].value[11] = 6
    /\ fn_res[1].value[12] = 6

\* C14: with sample_style 'increasing' the batch size is an exponential ramp
\* over the whole run: at iteration t it is max(1, floor(batch_size/4 *
\* 4^(t/(max_iter-1)))), so it starts at max(1, floor(batch_size/4)), is
\* non-decreasing, and reaches params['batch_size'] at t = max_iter-1, for every
\* max_iter >= 2.  (The ramp values are compared where max_iter-1 is even or at
\* most MaxShortRun.)
C14_Increasing ==
    (Scheduled("increasing") /\ fn_call[2].max_iter >= 2) =>
        LET v  == fn_res[1].value
            bs == fn_call[2].batch_size
            M  == fn_call[2].max_iter - 1
        IN  /\ Len(v) = M + 1
            /\ v[1] = Max2(1, bs \div 4)
            /\ NonDecreasing(v)
            /\ v[M + 1] = bs
            /\ (M % 2 = 0 \/ M <= MaxShortRun) =>
                   \A t \in 0..M : v[t + 1] = Max2(ExactY(t, bs, M), 1)

\* batch_size = 7 over 21 iterations: the ramp is over at iteration 18, where
\* the batch size is 7 already; at iteration 17 it is 6, and a ramp over the
\* whole run is at 5 there
C14_RampOverAtCutoff ==
    /\ Scheduled("increasing")
    /\ fn_call[2].batch_size = 7
    /\ fn_call[2].max_iter = 21
    /\ fn_res[1].value[18] = 6
    /\ ExactY(17, 7, 20) = 5
    /\ fn_res[1].value[19] = 7
    /\ fn_res[1].value[21] = 7

\* the iterate after k steps of saga
SagaIterate(k) == IF k = 0 THEN x0 ELSE hist.x_hist[k]

\* C15: saga performs at most N * n_epochs steps; eta is evaluated once per
\* epoch, after every N steps, as the relative sup-norm change of x between the
\* ends of consecutive epochs, for every N >= 1 including N = 1; the solver
\* stops with status 'optimal' at the first such evaluation with eta <= tol and
\* otherwise ends with 'max iterations reached' after N * n_epochs steps.
C15_SagaTermination ==
    LET N == NofF(f)
        k == Len(hist.x_hist)
    IN  /\ pc \in {"saga_loop", "saga_step", "saga_after", "saga_returned"} =>
              k <= N * params.n_epochs
        /\ (pc = "saga_loop" /\ k >= 1 /\ k % N = 0) =>
              eta = stop_scikit_saga(SagaIterate(k), SagaIterate(k - N))
        /\ pc = "saga_returned" =>
              \/ status = "optimal" /\ FrLe(eta, tol)
              \/ status = "max iterations reached" /\ FrGt(eta, tol) /\ k = N * params.n_epochs

\* a run on a single sample that took all its steps and ended with 'max
\* iterations reached': eta was never evaluated, although the last step changed
\* x by less than tol
C15_NeverEvaluated ==
    /\ pc = "saga_returned"
    /\ NofF(f) = 1
    /\ Len(hist.x_hist) = params.n_epochs
    /\ Len(hist.x_hist) >= 2
    /\ eta = Inf
    /\ status = "max iterations reached"
    /\ FrLe(stop_scikit_saga(SagaIterate(Len(hist.x_hist)), SagaIterate(Len(hist.x_hist) - 1)), tol)

\* a run on two samples that stopped with 'optimal': eta is the change of x in
\* the second step alone, not the change over the epoch
C15_StopsOnOneStep ==
    /\ pc = "saga_returned"
    /\ NofF(f) = 2
    /\ status = "optimal"
    /\ Len(hist.x_hist) = 2
    /\ eta = stop_scikit_saga(SagaIterate(2), SagaIterate(1))
    /\ eta # stop_scikit_saga(SagaIterate(2), SagaIterate(0))

NormMethods == {"prox", "jacobian_prox", "moreau"}

\* a call of a method of the 1-norm has ended
NormCalled == pc = "helper" /\ fn_call # <<>> /\ fn_call[1] \in NormMethods /\ fn_res # <<>>

Sign(v) == IF v > 0 THEN 1 ELSE IF v < 0 THEN -1 ELSE 0

\* C16: for the 1-norm with lambda > 0, every x and alpha > 0, prox(x, alpha) is
\* sign(x) * max(|x| - alpha*lambda, 0) in every coordinate (lambda = 1, alpha =
\* 2: prox([3, -1, 0.5, -2.5]) = [1, 0, 0, -0.5]); jacobian_prox is the diagonal
\* matrix that marks exactly the coordinates with |x_j| > alpha*lambda, which
\* are those where prox is non-zero; prox, jacobian_prox and moreau end with an
\* error when alpha <= 0.
C16_Norm1Prox ==
    NormCalled =>
        LET c == fn_call[2]
            r == fn_res[1]
            l == FMul(c.alpha, c.phi.lambda1)
            n == Len(c.x)
        IN  IF c.alpha <= 0 THEN r.raised # ""
            ELSE /\ r.raised = ""
                 /\ fn_call[1] = "prox" =>
                       /\ \A k \in 1..n :
                             r.value[k] = Sign(c.x[k]) * Max2(Abs(c.x[k]) - l, 0)
                       /\ (c.x = FourPoint /\ c.phi.lambda1 = SC /\ c.alpha = 2 * SC) =>
                             r.value = <<SC, 0, 0, -(SC \div 2)>>
                 /\ fn_call[1] = "jacobian_prox" =>
                       \A i, j \in 1..n :
                          /\ r.value[i][j] \in {0, 1}
                          /\ r.value[i][j] = 1 <=> (i = j /\ Abs(c.x[i]) > l)
                          /\ r.value[i][i] = 1 <=> prox(c.phi, c.x, c.alpha)[i] # 0

\* prox([3, -1, 0.5, -2.5]) with lambda = 1 and alpha = 2 has returned
C16_FourPointProx ==
    /\ Called("prox")
    /\ fn_call[2].x = FourPoint
    /\ fn_call[2].phi.lambda1 = SC
    /\ fn_call[2].alpha = 2 * SC
    /\ fn_res[1].raised = ""
    /\ fn_res[1].value[4] = -(SC \div 2)

\* alpha * lambda * ||z||_1 + 0.5 * ||z - x||^2, at scale SC * SC
MoreauObjective(ph, x, alpha, z) ==
    FMul(alpha, ph.lambda1) * Norm1Of(z) + RDiv(Dot(VSub(z, x), VSub(z, x)), 2)

\* the candidates z for a point x of the plane: the grid, and in each coordinate
\* the value of prox and its two neighbours
Candidates(ph, x, alpha) ==
    LET pz == prox(ph, x, alpha)
    IN  (Grid1 \cup {pz[1] - 1, pz[1], pz[1] + 1}) \X (Grid1 \cup {pz[2] - 1, pz[2], pz[2] + 1})

\* C17: for the 1-norm, every x and alpha > 0, moreau(x, alpha) is the minimum
\* of its definition: moreau(x, alpha) <= alpha*lambda*||z||_1 + 0.5*||z - x||^2
\* for every candidate z of a grid, with equality at z = prox(x, alpha).
C17_MoreauIsMinimum ==
    (Called("moreau") /\ fn_call[2].alpha > 0 /\ Len(fn_call[2].x) = 2) =>
        LET c == fn_call[2]
            v == fn_res[1].value
        IN  /\ fn_res[1].raised = ""
            /\ \A z \in Candidates(c.phi, c.x, c.alpha) :
                  v <= MoreauObjective(c.phi, c.x, c.alpha, z)
            /\ v = MoreauObjective(c.phi, c.x, c.alpha,
                                   [k \in 1..2 |-> Sign(c.x[k]) * Max2(Abs(c.x[k]) - FMul(c.alpha, c.phi.lambda1), 0)])

\* moreau has returned for a point with one coordinate above the threshold and
\* one below it
C17_MoreauEvaluated ==
    /\ Called("moreau")
    /\ fn_call[2].alpha = SC \div 2
    /\ fn_call[2].phi.lambda1 = SC
    /\ fn_call[2].x = <<SC, -(SC \div 2)>>
    /\ fn_res[1].raised = ""
    /\ fn_res[1].value > 0

\* the step of the central differences of the quadratic losses
DiffStep == 2 * (SC \div 8)

\* x + d * e_k
Shifted(x, k, d) == [j \in 1..Len(x) |-> IF j = k THEN x[j] + d ELSE x[j]]

FrMinus(a, b) == <<a[1] * b[2] - b[1] * a[2], a[2] * b[2]>>

FrProd(a, b) == <<a[1] * b[1], a[2] * b[2]>>

\* exp of the positive part and of the negative part of a sum of logarithms.
\* products are cut off at PowCap, and a product that reaches it decides nothing
PowCap == 1000000000

CapMul(x, y) == IF x > PowCap \div y THEN PowCap ELSE x * y

RECURSIVE CapPow(_, _)
CapPow(b, e) == IF e <= 0 THEN 1 ELSE CapMul(b, CapPow(b, e - 1))

PosPart(v) ==
    CapMul(CapMul(CapPow(2, v[2]), CapPow(3, v[3])), CapMul(CapPow(5, v[5]), CapPow(7, v[7])))

NegPart(v) == PosPart([r \in Primes |-> -v[r]])

\* a lower bound of a sum of logarithms: 0 < log r < r
LogsFloor(v) == -(Abs(v[2]) * 2 + Abs(v[3]) * 3 + Abs(v[5]) * 5 + Abs(v[7]) * 7)

\* den * (fstar(eta) - fstar(xi)) - (eta - xi) * den * s >= 0 for the slope s =
\* gstar(xi), strictly for eta # xi: the line through (xi, fstar(xi)) with
\* slope gstar(xi) lies below fstar.  xi = -a/den, eta = -ap/den.
BelowConjugate(a, ap, den, fs, gs) ==
    LET fe  == logistic_fstar(<<-ap, den>>)
        dv  == [r \in Primes |-> (den \div fe.den) * fe.v[r] - (den \div fs.den) * fs.v[r]]
        gap == [r \in Primes |-> dv[r] - (a - ap) * gs.v[r]]
    IN  IF gs.tag = "log"
        THEN /\ PosPart(gap) < PowCap
             /\ PosPart(gap) >= NegPart(gap)
             /\ ap # a => PosPart(gap) > NegPart(gap)
        ELSE ap # a => LogsFloor(dv) > -Surrogate

\* the two difference quotients of exp(gstar) at the neighbours of xi = -a/den
\* enclose Hstar(xi) * exp(gstar(xi)), the derivative of exp(gstar)
EnclosesCurvature(a, den, gs, Hs) ==
    LET E(w) == <<PosPart(w), NegPart(w)>>
        El   == E(logistic_gstar(<<-(a + 1), den>>).v)
        Er   == E(logistic_gstar(<<-(a - 1), den>>).v)
        dl   == FrProd(<<den, 1>>, FrMinus(E(gs.v), El))
        dr   == FrProd(<<den, 1>>, FrMinus(Er, E(gs.v)))
        HE   == FrProd(Hs, E(gs.v))
    IN  /\ PosPart(gs.v) < PowCap /\ NegPart(gs.v) < PowCap
        /\ FrLt(dl, HE) /\ FrLt(HE, dr)

C18_Quadratic ==
    LET c == fn_call[2]
        r == fn_res[1].value
        h == DiffStep
    IN  /\ Called("lsq") =>
              /\ fstar(c.f, c.x + h, c.i) - fstar(c.f, c.x - h, c.i) = 2 * h * r.gstar
              /\ r.Hstar[2] * (fstar(c.f, c.x + h, c.i) - 2 * r.fstar + fstar(c.f, c.x - h, c.i))
                    = r.Hstar[1] * h * h
              /\ r.back = c.z
              /\ r.Hstar[1] >= 0 /\ r.Hstar[2] > 0
        /\ Called("block_lsq") =>
              LET n     == Len(c.x)
                  F(y)  == block_lsq_fstar(c.f, y, c.i)
              IN  /\ \A k \in 1..n :
                        F(Shifted(c.x, k, h)) - F(Shifted(c.x, k, -h)) = 2 * h * r.gstar[k]
                  /\ \A j, k \in 1..n :
                        r.Hstar[j][k][2] *
                           (F(Shifted(Shifted(c.x, j, h), k, h)) - F(Shifted(Shifted(c.x, j, h), k, -h))
                            - F(Shifted(Shifted(c.x, j, -h), k, h)) + F(Shifted(Shifted(c.x, j, -h), k, -h)))
                        = r.Hstar[j][k][1] * 4 * h * h
                  /\ r.back = c.z
                  /\ \A j, k \in 1..n :
                        /\ r.Hstar[j][k] = r.Hstar[k][j]
                        /\ r.Hstar[j][j][1] >= 0
                        /\ r.Hstar[j][j][1] * r.Hstar[k][k][1] * r.Hstar[j][k][2] * r.Hstar[j][k][2]
                              >= r.Hstar[j][k][1] * r.Hstar[j][k][1] * r.Hstar[j][j][2] * r.Hstar[k][k][2]

C18_Logistic ==
    Called("logistic") =>
        LET c   == fn_call[2]
            r   == fn_res[1].value
            a   == -c.x[1]
            den == c.x[2]
        IN  /\ r.back.tag = "log"
            /\ r.back.v = [q \in Primes |-> Exponent(c.z[1], q) - Exponent(c.z[2], q)]
            /\ (a >= 0 /\ a <= den) =>
                  /\ r.fstar.tag = "logs"
                  /\ \A ap \in 0..den : BelowConjugate(a, ap, den, r.fstar, r.gstar)
                  /\ r.Hstar[1] >= 0 /\ r.Hstar[2] > 0
            /\ (a >= 2 /\ a <= den - 2) => EnclosesCurvature(a, den, r.gstar, r.Hstar)

MaxTerm(ff, b, m) ==
    LET normA  == RowNormSq(ff)
        M      == IF ff.convex THEN 0 ELSE FMul(ff.gamma, MaxOf(normA))
        L      == FMul(derive_L(ff), RDiv(SumSeq(normA), Len(normA)))
        Ltilde == FMul(derive_L(ff), MaxOf(normA))
    IN  Max2(2 * L + M, FMul(SC + FDiv(m * SC, FSqrt(2 * b * SC)), Ltilde) + Max2(M, L))

\* C19: the default step size of SNSPP is alpha* = 1 / (eta_sched * max(term1,
\* term2)) with eta_sched = 0.5, m = 10 and b = max(int(0.005 * N), 1).
C19_DefaultStepSize ==
    Called("get_default_spp_params") =>
        LET ff == fn_call[2].f
            p  == fn_res[1].value
            b  == Max2((5 * NofF(ff)) \div 1000, 1)
        IN  /\ p.m_iter = 10
            /\ p.batch_size = b
            /\ p.alpha = FDiv(SC, FMul(Fix(<<1, 2>>), MaxTerm(ff, b, 10)))

\* the default step size of the squared loss on DesignA is eta_sched / max(term1,
\* term2), a quarter of 1 / (eta_sched * max(term1, term2))
C19_QuarterStep ==
    /\ Called("get_default_spp_params")
    /\ fn_call[2].f = TwoSamples
    /\ fn_res[1].value.alpha = FDiv(FMul(Fix(<<1, 2>>), SC), MaxTerm(TwoSamples, 1, 10))
    /\ Abs(4 * fn_res[1].value.alpha - FDiv(SC, FMul(Fix(<<1, 2>>), MaxTerm(TwoSamples, 1, 10)))) <= 4
    /\ fn_res[1].value.alpha > 0

\* ------------------------------------------------------------------------
\* a run recomputed from its inputs and its draws alone.  c is the record of
\* the inputs [f, phi, x0, tol, p, np] with p the params after the defaults
\* were added and np the Newton parameters
\* ------------------------------------------------------------------------

\* the one element of a set of one element: {e(v) : v \in {w}} is e at the
\* value of w
Only(T) == CHOOSE v \in T : TRUE

\* the step length the backtracking loop ends with
RECURSIVE ReArmijo(_, _, _, _, _, _)
ReArmijo(c, q, xs, d, rhs, beta) ==
    IF Ueval(StepTo(xs, beta, d), c.f, c.phi, q.x, q.alpha, q.S, q.subA, q.hat_d)
          > ArmijoBound(q.U_old, c.np.mu, beta, d, rhs)
    THEN Only({ ReArmijo(c, q, xs, d, rhs, nb) :
                  nb \in { <<beta[1] * c.np.rho[1], beta[2] * c.np.rho[2]>> } })
    ELSE beta

\* the accepted point xs + beta * d of one pass of the Newton loop
ReStep(c, q, xs, d, rhs) ==
    Only({ StepTo(xs, ReArmijo(c, qq, xs, d, rhs, <<1, 1>>), d) :
             qq \in { [q EXCEPT !.U_old =
                         Ueval(xs, c.f, c.phi, q.x, q.alpha, q.S, q.subA, q.hat_d)] } })

\* the Newton loop from its k-th pass on: the final [xi_stack, xi]
RECURSIVE ReNewton(_, _, _, _, _)
ReNewton(c, q, k, xs, dual) ==
    IF k >= c.np.max_iter THEN [xi_stack |-> xs, xi |-> dual]
    ELSE Only({ Only({
            IF ResidualLeTol(rhs, c.p.tol_sub) THEN [xi_stack |-> xs, xi |-> dual]
            ELSE Only({ Only({ Only({ ReNewton(c, q, kk, nxs, nd) :
                                        nd \in {WriteBack(q.S, dual, nxs)}, kk \in {k + 1} }) :
                                 nxs \in {ReStep(c, q, xs, d, rhs)} }) :
                          d \in {cg(NewtonW(c.f, c.phi, q.alpha, q.S, q.subA, dual, z), rhs)} }) :
                   rhs \in {Rhs(c.f, c.phi, q.alpha, q.S, q.subA, dual, z)} }) :
            z \in {Zof(q.x, q.alpha, q.subA, xs, q.hat_d)} })

\* the snapshot and the dual after the variance-reduction step of iteration t
ReSnapshot(c, st, t) ==
    LET fresh == c.p.reduce_variance /\ t % c.p.m_iter = c.p.vr_skip
    IN  Only({ [xi_tilde |-> xt,
                xi |-> IF ~fresh THEN st.xi
                       ELSE IF c.f.convex THEN xt[1] ELSE ShiftedXi(c.f, xt[1], st.x)] :
                 xt \in {IF fresh THEN <<compute_full_xi(c.f, st.x)>> ELSE st.xi_tilde} })

\* the state [x, xi, alpha, xi_tilde, eta, x_hist] after iteration t on the batch B
ReIteration(c, st, B, t) ==
    LET rv == c.p.reduce_variance /\ t >= c.p.vr_skip
    IN  Only({ Only({ Only({ Only({
            [x |-> new_x, xi |-> out.xi, xi_tilde |-> sn.xi_tilde,
             alpha |-> IF c.f.convex /\ ~c.p.reduce_variance THEN DecayedAlpha(c.p.alpha, t)
                       ELSE st.alpha,
             eta |-> stop_scikit_saga(new_x, st.x),
             x_hist |-> Append(st.x_hist, new_x)] :
                  new_x \in {prox(c.phi, Zof(st.x, st.alpha, q.subA, out.xi_stack, q.hat_d),
                                  st.alpha)} }) :
             out \in {ReNewton(c, q, 0, Stack(sn.xi, B), sn.xi)} }) :
          q \in { [x |-> st.x, alpha |-> st.alpha, S |-> B, subA |-> SubA(c.f, B), U_old |-> 0,
                   hat_d |-> HatD(c.f, st.x, st.alpha, B, SubA(c.f, B), rv,
                                  IF rv THEN sn.xi_tilde[1] ELSE sn.xi)] } }) :
        sn \in {ReSnapshot(c, st, t)} })

\* the iterations from t on, one per batch of the sequence Bs, up to the stop on eta
RECURSIVE ReRun(_, _, _, _)
ReRun(c, st, Bs, t) ==
    IF Bs = <<>> \/ FrLe(st.eta, c.tol) \/ t >= c.p.max_iter THEN st
    ELSE Only({ ReRun(c, nst, rest, tt) :
                  nst \in {ReIteration(c, st, Head(Bs), t)}, rest \in {Tail(Bs)}, tt \in {t + 1} })

\* stochastic_prox_point recomputed from f, phi, x0, tol, the params of the
\* caller and the batches drawn
Replay(ff, ph, xx, tt, cp, Bs) ==
    Only({ Only({ ReRun(c, [x |-> xx, xi |-> get_xi_start_point(ff), xi_tilde |-> <<>>,
                            alpha |-> pp.alpha, eta |-> Inf, x_hist |-> <<>>], Bs, 0) :
                    c \in { [f |-> ff, phi |-> ph, x0 |-> xx, tol |-> tt, p |-> pp,
                             np |-> IF pp.newton_params = <<>> THEN get_default_newton_params
                                    ELSE pp.newton_params[1]] } }) :
             pp \in {ParamsUpdate(cp, get_default_spp_params(ff))} })

\* the state [x, gradients, g_sum, eta, x_hist] of saga after step t on the draw j
ReSagaStep(c, st, j, t) ==
    LET n     == NCols(c.f)
        N     == NofF(c.f)
        g_j   == st.gradients[j]
    IN  Only({ Only({
            [x |-> new_x,
             gradients |-> [st.gradients EXCEPT ![j] = gn],
             g_sum |-> [k \in 1..n |-> st.g_sum[k] - RDiv(g_j[k], N) + RDiv(gn[k], N)],
             eta |-> IF t % N = 1 THEN stop_scikit_saga(new_x, st.x) ELSE st.eta,
             x_hist |-> Append(st.x_hist, new_x)] :
                  new_x \in {prox(c.phi,
                                  [k \in 1..n |-> st.x[k] - FMul(c.alpha, gn[k] + st.g_sum[k] - g_j[k])],
                                  c.alpha)} }) :
          gn \in {SampleGradient(c.f, st.x, j)} })

\* the steps of saga from t on, one per draw of the sequence js
RECURSIVE ReSaga(_, _, _, _)
ReSaga(c, st, js, t) ==
    IF js = <<>> \/ FrLe(st.eta, c.tol) THEN st
    ELSE Only({ ReSaga(c, nst, rest, tt) :
                  nst \in {ReSagaStep(c, st, Head(js), t)}, rest \in {Tail(js)}, tt \in {t + 1} })

\* saga recomputed from f, phi, x0, tol, the params of the caller and the draws
ReplaySaga(ff, ph, xx, tt, cp, js) ==
    Only({ ReSaga(c, [x |-> xx, gradients |-> g0, g_sum |-> GradientMean(g0, NofF(ff), NCols(ff)),
                      eta |-> Inf, x_hist |-> <<>>], js, 0) :
             c \in { [f |-> ff, phi |-> ph, tol |-> tt,
                      alpha |-> SagaAlpha(ff, SagaParamsUpdate(cp))] },
             g0 \in {compute_gradient_table(ff, xx)} })

EvalsOf(k) ==
    SumSeq(hist.ssn_info[k].evaluations)
    + (IF params.reduce_variance /\ (k - 1) % params.m_iter = params.vr_skip
       THEN NofF(f) ELSE 0)

RECURSIVE EvalsUpTo(_)
EvalsUpTo(k) == IF k = 0 THEN 0 ELSE EvalsOf(k) + EvalsUpTo(k - 1)

\* C21: info['evaluations'] is cumulative: entry t is the number of
\* per-sample evaluations of the outer iterations 0..t (those of the Newton
\* steps plus N for every refresh of the snapshot) divided by N, so the
\* sequence never decreases.
C21_Cumulative ==
    pc = "returned" =>
        \A ev \in {ret[1].info.evaluations} :
            /\ \A t \in 1..Len(ev) : ev[t] = <<EvalsUpTo(t), NofF(f)>>
            /\ \A t \in 1..(Len(ev) - 1) : ev[t][1] <= ev[t + 1][1]

\* a returned run whose first iteration refreshed the snapshot and took Newton
\* steps: its second entry of info['evaluations'] is smaller than the first
C21_PerIteration ==
    /\ pc = "returned"
    /\ Len(ret[1].info.evaluations) >= 2
    /\ params.reduce_variance
    /\ SumSeq(hist.ssn_info[1].evaluations) > 0
    /\ ret[1].info.evaluations[1] = <<EvalsOf(1), NofF(f)>>
    /\ ret[1].info.evaluations[2] = <<EvalsOf(2), NofF(f)>>
    /\ ret[1].info.evaluations[2][1] < ret[1].info.evaluations[1][1]

\* the samples of the batch S
InBatch(i) == \E l \in 1..Len(S) : S[l] = i

\* prox_{alpha*phi}(x - (alpha/s) * A_S^T xi_stack + hat_d), written out
PrimalOf(x, stack) ==
    LET AS == [l \in 1..Len(S) |-> f.A[S[l] + 1]]
        v  == [k \in 1..Len(x) |-> SumSeq([l \in 1..Len(S) |-> AS[l][k] * stack[l]])]
    IN  [k \in 1..Len(x) |->
            SoftThreshold(x[k] - RDiv(alpha_t * v[k], Len(S) * SC) + sub.hat_d[k],
                          FMul(alpha_t, phi.lambda1))]

\* C22: solve_subproblem changes the dual only on the sampled indices: the
\* block of every sample outside S is what it was before the call, the block
\* of every sample in S is its block of the final stacked dual, the primal
\* returned is prox_{alpha*phi}(x - (alpha/s) A_S^T xi_stack + hat_d), and the
\* input primal x is not written.
C22_Step ==
    /\ pc \in {"solve", "newton", "armijo"} =>
          /\ \A i \in DOMAIN xi : ~InBatch(i) => xi'[i] = xi[i]
          /\ x_t' = x_t
          /\ pc' \in InSubproblem =>
                \A l \in 1..Len(S) : xi'[S[l]] = sub'.xi_stack[l]
    /\ (pc = "sub_done" /\ pc' = "loop") =>
          /\ xi' = xi
          /\ x_t' = PrimalOf(x_t, [l \in 1..Len(S) |-> xi[S[l]]])
          /\ Last(hist'.x_hist) = x_t'
          /\ x_old' = x_old

C22_DualFrame == [][C22_Step]_vars

\* a Newton step of a solve on one of two samples has moved the block of the
\* sampled index; the other block is the one the call started from
C22_OneBlockMoved ==
    /\ pc = "sub_done"
    /\ sub.sub_iter >= 1
    /\ Len(S) = 1
    /\ sub.d # <<0>>
    /\ xi[S[1]] = sub.xi_stack[1]
    /\ xi[S[1]] # get_xi_start_point(f)[S[1]]
    /\ \E i \in DOMAIN xi : ~InBatch(i) /\ xi[i] = get_xi_start_point(f)[i]
    /\ ~params.reduce_variance
    /\ iter_t = 0

\* ||r||^2 for the optimality residual r = g*(xi_S) - A_S prox(z(xi_S)) at the
\* current dual
ResidualSq ==
    LET px == PrimalOf(x_t, [l \in 1..Len(S) |-> xi[S[l]]])
        r  == [l \in 1..Len(S) |-> gstar(f, xi[S[l]], S[l]) - Dot(f.A[S[l] + 1], px)]
    IN  Dot(r, r)

TolSubSq == Fix(params.tol_sub) * Fix(params.tol_sub)

MaxIterMessage == "Reached max. iter in semismooth Newton"

\* the Newton loop up to the end of the solve: a step is taken only while
\* ||r|| > tol and fewer than max_iter steps were taken, none at all when the
\* first residual is within tol, and the diagnostics have the lengths stated
C23_Loop ==
    /\ pc = "newton" =>
          /\ (pc' = "armijo") <=>
                (sub.sub_iter < newton_params.max_iter /\ ResidualSq > TolSubSq)
          /\ pc' \in {"armijo", "sub_done"}
          /\ (sub.sub_iter = 0 /\ ResidualSq <= TolSubSq) =>
                /\ pc' = "sub_done"
                /\ sub'.converged
                /\ sub'.step_sz = <<>>
                /\ xi' = xi
    /\ pc' = "sub_done" =>
          /\ sub'.converged <=> (sub.sub_iter < newton_params.max_iter /\ ResidualSq <= TolSubSq)
          /\ sub'.converged => Len(sub'.residual) = Len(sub'.step_sz) + 1
          /\ ~sub'.converged =>
                /\ Len(sub'.residual) = Len(sub'.step_sz)
                /\ Len(sub'.step_sz) = newton_params.max_iter
    /\ pc = "armijo" => Len(sub'.step_sz) <= newton_params.max_iter

\* the return of a solve: new_x, xi and info go back to the driver
C23_Returns ==
    /\ pc' = "loop"
    /\ err' = ""
    /\ Last(hist'.x_hist) = x_t'
    /\ Last(hist'.xi_hist) = xi
    /\ Last(hist'.ssn_info).residual = sub.residual
    /\ Last(hist'.ssn_info).step_size = sub.step_sz

C23_IndexErrorAtZeroCap ==
    /\ pc = "error"
    /\ err = "IndexError"
    /\ verbose
    /\ newton_params.max_iter = 0
    /\ hist.x_hist = <<>>

\* the optimality residual r = g*(xi_S) - A_S prox(z(xi_S)) at the current dual
Residual ==
    LET px == PrimalOf(x_t, [l \in 1..Len(S) |-> xi[S[l]]])
    IN  [l \in 1..Len(S) |-> gstar(f, xi[S[l]], S[l]) - Dot(f.A[S[l] + 1], px)]

Negated(v) == [k \in 1..Len(v) |-> -v[k]]

\* rho^k as a fraction
RhoPow(k) == <<Pow(newton_params.rho[1], k), Pow(newton_params.rho[2], k)>>

\* U at the trial point xi_S + beta * d of the running line search
UTrial(beta) ==
    Ueval(StepTo(sub.xi_stack, beta, sub.d), f, phi, x_t, alpha_t, S, sub.subA, sub.hat_d)

\* U(xi_S + beta*d) <= U(xi_S) + mu * beta * (d . v)
SufficientDecrease(beta, v) ==
    UTrial(beta) <= UTrial(<<0, 1>>)
                    + RDiv(newton_params.mu[1] * beta[1] * Dot(sub.d, v),
                           newton_params.mu[2] * beta[2])

\* the line search with slope d . v: beta = 1 is tried first, beta is only
\* ever multiplied by rho, and the step accepted is rho^k for the smallest
\* k >= 0 that gives sufficient decrease
ArmijoSearch(v) ==
    /\ (pc = "newton" /\ pc' = "armijo") => sub'.beta = <<1, 1>> /\ sub'.d = cg(NewtonW(f, phi, alpha_t, S, sub.subA, xi, Zof(x_t, alpha_t, sub.subA, sub.xi_stack, sub.hat_d)), Negated(Residual))
    /\ pc = "armijo" =>
          \E k \in 0..MaxShrink :
             /\ sub.beta = RhoPow(k)
             /\ \A j \in 0..(k - 1) : ~SufficientDecrease(RhoPow(j), v)
             /\ IF SufficientDecrease(sub.beta, v)
                THEN /\ pc' = "newton"
                     /\ Last(sub'.step_sz) = sub.beta
                     /\ sub'.xi_stack = StepTo(sub.xi_stack, sub.beta, sub.d)
                ELSE /\ pc' = "armijo"
                     /\ sub'.beta = RhoPow(k + 1)
                     /\ sub'.xi_stack = sub.xi_stack
                     /\ sub'.d = sub.d

\* C24: Armijo line search in solve_subproblem: with r = g*(xi_S) -
\* A_S prox(z(xi_S)) the optimality residual and d the Newton direction, the
\* step accepted is beta = rho^k for the smallest k >= 0 such that
\* U(xi_S + beta*d) <= U(xi_S) + mu * beta * (d . (-r)); beta = 1 is tried
\* first and beta is only ever multiplied by rho.
C24_Armijo == [][ArmijoSearch(Negated(Residual))]_vars

\* C24 with the slope the code uses: rhs is -r and the bound is
\* U(xi_S) + mu * beta * (d @ -rhs), so the slope is d . r, the directional
\* derivative of U along d, which is negative for a descent direction.
C24_ArmijoSlope == [][ArmijoSearch(Residual)]_vars

\* a line search rejected beta = 1 and accepted a smaller step, although
\* beta = 1 satisfies the inequality with the slope d . (-r)
C24_ShrunkStep ==
    /\ pc = "armijo"
    /\ sub.beta[2] > 1
    /\ SufficientDecrease(sub.beta, Residual)
    /\ ~SufficientDecrease(<<1, 1>>, Residual)
    /\ SufficientDecrease(<<1, 1>>, Negated(Residual))
    /\ Dot(sub.d, Residual) < 0

NoDescentMessage == "No descent direction"

\* "d . v > -eps" fails; d . v is a whole number of units far coarser than
\* eps = 1e-8, so it fails exactly when d . v is negative
FailsDescentTest(d, v) == Dot(d, v) < 0

\* the numerical warning of a Newton step, with the descent test taken on d . v:
\* issued exactly when the test fails, and then the line search is still
\* attempted with that direction and the Newton loop goes on
DescentWarning(v) ==
    /\ (pc = "newton" /\ pc' = "armijo") =>
          /\ IF FailsDescentTest(sub'.d, v)
             THEN warned' = Append(warned, NoDescentMessage)
             ELSE warned' = warned
          /\ sub'.beta = <<1, 1>>
          /\ sub'.U_new = Ueval(StepTo(sub.xi_stack, <<1, 1>>, sub'.d),
                                f, phi, x_t, alpha_t, S, sub.subA, sub.hat_d)
          /\ err' = ""
    /\ (pc = "newton" /\ pc' # "armijo") => warned' = warned
    /\ pc = "armijo" =>
          /\ pc' \in {"armijo", "newton"}
          /\ warned' = warned
          /\ sub'.d = sub.d
          /\ err' = ""
    /\ (pc # "newton" /\ warned' # warned) => Last(warned') # NoDescentMessage

\* C25: in solve_subproblem a numerical warning is issued for a Newton step
\* exactly when the direction fails the strict descent test d^T r > -eps
\* (eps = 1e-8, r the optimality residual); the warning never aborts the
\* solve: the line search is still attempted with that direction and the
\* Newton loop continues.
C25_DescentWarning == [][DescentWarning(Residual)]_vars

\* C25 with the test the code takes: d @ rhs > -eps with rhs = -r, that is
\* d^T (-r) > -eps; the warning is issued exactly when d^T r is positive.
C25_DescentWarningRhs == [][DescentWarning(Negated(Residual))]_vars

\* a Newton step whose direction has d^T r > 0 was warned about, and its line
\* search is running with that direction
C25_WarnedAndSearching ==
    /\ pc = "armijo"
    /\ warned # <<>>
    /\ Last(warned) = NoDescentMessage
    /\ Dot(sub.d, Residual) > 0
    /\ sub.d = cg(NewtonW(f, phi, alpha_t, S, sub.subA, xi,
                          Zof(x_t, alpha_t, sub.subA, sub.xi_stack, sub.hat_d)),
                  Negated(Residual))

\* a Newton step whose direction has d^T r < 0, a descent direction that
\* fails "d^T r > -eps", was taken without a warning
C25_DescentNotWarned ==
    /\ pc = "armijo"
    /\ warned = <<>>
    /\ Dot(sub.d, Residual) < 0

\* every block of the dual lies in [-1, 0]
DualInDomain == \A i \in DOMAIN xi : -SC <= xi[i] /\ xi[i] <= 0

\* every entry of a stacked dual lies in [-1, 0]
StackInDomain(stack) == \A l \in 1..Len(stack) : -SC <= stack[l] /\ stack[l] <= 0

\* C26: for the logistic loss the line search never accepts a step that
\* crosses the boundary of the domain of f*: with all dual entries on S in
\* [-1, 0] before a Newton step, a trial point outside [-1, 0] is rejected
\* and every dual entry on S lies in [-1, 0] after the accepted step; so from
\* the default dual -0.5 every dual entry stays in [-1, 0] through any
\* sequence of subproblem solves.
C26_Step ==
    /\ (pc \notin {"entry", "error"} /\ f.name = "logistic") => DualInDomain
    /\ (pc = "loop" /\ pc' = "sample" /\ iter_t' = 0) =>
          xi = [i \in 0..(NofF(f) - 1) |-> -(SC \div 2)]
    /\ (pc = "armijo" /\ StackInDomain(sub.xi_stack)) =>
          /\ UTrial(<<0, 1>>) < PosInf
          /\ ~StackInDomain(StepTo(sub.xi_stack, sub.beta, sub.d)) =>
                /\ pc' = "armijo"
                /\ xi' = xi
                /\ sub'.xi_stack = sub.xi_stack
          /\ pc' = "newton" =>
                /\ sub'.xi_stack = StepTo(sub.xi_stack, sub.beta, sub.d)
                /\ StackInDomain(sub'.xi_stack)
                /\ DualInDomain'

C26_StaysInDomain == [][C26_Step]_vars

\* a line search whose full Newton step left [-1, 0] is about to accept a
\* smaller step that lies inside
C26_BoundaryStepRejected ==
    /\ pc = "armijo"
    /\ f.name = "logistic"
    /\ ~StackInDomain(StepTo(sub.xi_stack, <<1, 1>>, sub.d))
    /\ sub.beta[2] > 1
    /\ ~ArmijoFails
    /\ StackInDomain(StepTo(sub.xi_stack, sub.beta, sub.d))
    /\ StepTo(sub.xi_stack, sub.beta, sub.d) # sub.xi_stack

\* the positions of saga at which the gradient table exists
SagaRunning == {"saga_loop", "saga_step", "saga_after", "saga_returned"}

\* A_i^T g_i(A_i x), written out
RowAt(i, x) ==
    [k \in 1..NCols(f) |-> f.A[i + 1][k] * g(f, SumSeq([c \in 1..NCols(f) |-> f.A[i + 1][c] * x[c]]), i)]

\* the iterate step t (from 1) started from
IterateBefore(t) == IF t = 1 THEN x0 ELSE hist.x_hist[t - 1]

\* the iterate at which sample i was last drawn, x0 if it never was
LastDrawnAt(i) ==
    IF \E t \in 1..Len(rng) : rng[t] = i
    THEN IterateBefore(CHOOSE t \in 1..Len(rng) :
                          rng[t] = i /\ \A u \in (t + 1)..Len(rng) : rng[u] # i)
    ELSE x0

\* the sum of the rows of the table, column k
ColumnSum(tbl, k) == SumSeq([i \in 1..NofF(f) |-> tbl[i - 1][k]])

\* C27: the gradient table of saga: after every step row i is A_i^T g_i(A_i x)
\* at the iterate at which sample i was last drawn (at x0 if never drawn), a
\* step changes only the row j of the drawn sample, g_sum is (1/N) times the
\* sum of the rows (to the rounding of the two divisions by N of a step), and
\* the primal update is x <- prox_{alpha*phi}(x - alpha * (g_new - G_j + gbar))
\* with G_j the row of j stored before the replacement.
C27_Step ==
    /\ pc' \in SagaRunning =>
          /\ \A i \in 0..(NofF(f) - 1) : gradients'[i] = RowAt(i, LastDrawnAt(i)')
          /\ \A k \in 1..NCols(f) :
                Abs(NofF(f) * g_sum'[k] - ColumnSum(gradients', k)) <= NofF(f)
    /\ (pc = "saga_step" /\ pc' \in SagaRunning) =>
          /\ Len(rng') = Len(rng) + 1
          /\ Len(hist'.x_hist) = Len(rng')
          /\ \A j \in {Last(rng')} :
                /\ \A i \in 0..(NofF(f) - 1) : i # j => gradients'[i] = gradients[i]
                /\ gradients'[j] = RowAt(j, x_t)
                /\ x_t' = [k \in 1..NCols(f) |->
                             SoftThreshold(
                                 x_t[k] - FMul(alpha_t, gradients'[j][k] - gradients[j][k] + g_sum[k]),
                                 FMul(alpha_t, phi.lambda1))]
                /\ Last(hist'.x_hist) = x_t'
    /\ (pc # "saga_step" /\ pc \in SagaRunning) => UNCHANGED <<gradients, g_sum, rng>>

C27_GradientTable == [][C27_Step]_vars

\* with two samples, a step has replaced the row of a sample drawn before: the
\* row of the other sample is still the one computed at x0
C27_RowReplacedAgain ==
    /\ pc = "saga_loop"
    /\ NofF(f) = 2
    /\ Len(rng) = 3
    /\ rng[1] = rng[3]
    /\ rng[2] = rng[1]
    /\ gradients[rng[1]] # RowAt(rng[1], x0)
    /\ gradients[rng[1]] = RowAt(rng[1], hist.x_hist[2])
    /\ gradients[1 - rng[1]] = RowAt(1 - rng[1], x0)
    /\ hist.x_hist[2] # hist.x_hist[1]

\* ------------------------------------------------------------------------
\* C28: the tuning harnesses and a failing solve
\* ------------------------------------------------------------------------

\* the harness call has ended
HarnessEnded == harness # <<>> /\ H.at = "done"

\* some solve of the harness call raised
SomeSolveRaised ==
    IF H.kind = "do_grid_run"
    THEN \E cl \in Cells(H.K, H.L) : \E i \in 1..Len(H.solved[cl]) : H.solved[cl][i].raised
    ELSE H.raised # { }

\* the repetition reached objective <= psi_star * (1 + psi_tol)
ReachedTarget(out) ==
    /\ ~out.raised
    /\ \E i \in 1..Len(out.objective) :
          out.objective[i] * H.call.psi_tol[2]
              <= H.call.psi_star * (H.call.psi_tol[2] + H.call.psi_tol[1])

\* C28: in do_grid_run and params_tuner a solve that raises is caught and the
\* harness does not fail: it ends by returning its result for every cell
C28_HarnessReturns ==
    (HarnessEnded /\ SomeSolveRaised) => (H.err = "" /\ H.ret # <<>>)

\* C28, the part on the cells: in every result do_grid_run returns, a cell is
\* converged exactly if each of its repetitions reached the target, and a cell
\* with a failed repetition has an infinite runtime and is not converged
C28_CellConverged ==
    (HarnessEnded /\ H.kind = "do_grid_run" /\ H.ret # <<>>) =>
        \A cl \in Cells(H.K, H.L) :
            /\ H.ret[1].converged[cl] <=>
                  \A i \in 1..Len(H.solved[cl]) : ReachedTarget(H.solved[cl][i])
            /\ Len(H.solved[cl]) = H.call.n_rep
            /\ (\E i \in 1..Len(H.solved[cl]) : H.solved[cl][i].raised) =>
                  (~H.ret[1].converged[cl] /\ H.ret[1].runtime[cl] = PosInf
                   /\ H.ret[1].objective[cl] = PosInf)

\* do_grid_run returned although a repetition failed: a later repetition of
\* the column did not fail
C28_FailureRecorded ==
    /\ HarnessEnded /\ H.kind = "do_grid_run" /\ H.ret # <<>>
    /\ SomeSolveRaised

\* do_grid_run ended with the assertion on the step sizes
C28_GridAsserts ==
    HarnessEnded /\ H.kind = "do_grid_run" /\ H.err = "AssertionError"

\* params_tuner ended in its except clause, with the KeyError of n_epochs
C28_TunerKeyError ==
    HarnessEnded /\ H.kind = "params_tuner" /\ H.err = "KeyError"

\* params_tuner returned although a solve failed
C28_TunerRecorded ==
    HarnessEnded /\ H.kind = "params_tuner" /\ H.ret # <<>> /\ SomeSolveRaised

\* ------------------------------------------------------------------------
\* C29: the snapshot of the variance reduction
\* ------------------------------------------------------------------------

\* the subproblem solver is about to be called (lines 309-318)
AtSolve == pc = "solve"

\* the snapshot the subproblem solver reads exists
SnapshotTaken == xi_tilde # <<>> /\ (is_easy => full_g # <<>>)

\* C29: whenever the subproblem solver is called with reduce_variance true
\* (params['reduce_variance'] and t >= vr_skip), xi_tilde (and full_g on the
\* fast path) is not None, for every m_iter >= 1 and vr_skip >= 0
C29_Snapshot == (AtSolve /\ reduce_variance) => SnapshotTaken

\* C29 for vr_skip < m_iter, where iteration vr_skip refreshes the snapshot
C29_SnapshotSkipBelowPeriod ==
    (AtSolve /\ reduce_variance /\ params.vr_skip < params.m_iter) => SnapshotTaken

\* C29, the last part: for t < vr_skip the subproblem is solved without the
\* correction
C29_NoCorrectionBeforeSkip ==
    (AtSolve /\ params.reduce_variance /\ iter_t < params.vr_skip) => ~reduce_variance

\* the solver is called with the correction on, after an iteration without it
C29_ActiveAfterSkip ==
    /\ AtSolve /\ reduce_variance /\ SnapshotTaken
    /\ params.vr_skip = 1 /\ iter_t = 1

\* the solver is called with the correction on and no snapshot: vr_skip >= m_iter
C29_NoSnapshot ==
    AtSolve /\ reduce_variance /\ xi_tilde = <<>> /\ params.vr_skip >= params.m_iter

\* and the call ends with the TypeError of xi_tilde[i]
C29_TypeError == pc = "error" /\ err = "TypeError" /\ params.reduce_variance

\* ------------------------------------------------------------------------
\* C30: the calls of a session and the default params dict
\* ------------------------------------------------------------------------

\* the last call of the session
LastCall == H.last[1]

SomeCall == harness # <<>> /\ H.kind = "session" /\ H.last # <<>>

\* the call worked with the defaults derived from its own loss
OwnDefaults(c) ==
    IF c.solver = "stochastic_prox_point"
    THEN c.params = get_default_spp_params(c.f)
    ELSE /\ c.params.n_epochs = 10
         /\ c.alpha = SagaAlpha(c.f, EmptyDict)

\* the keys the caller set keep their values, and only missing keys are added
CallerKeysKept(c) ==
    /\ DOMAIN c.arg[1] \subseteq DOMAIN c.params
    /\ \A key \in DOMAIN c.arg[1] : c.params[key] = c.arg[1][key]
    /\ c.solver = "stochastic_prox_point" => c.alpha = c.params.alpha
    /\ (c.solver = "saga" /\ "alpha" \in DOMAIN c.arg[1]) => c.alpha = c.arg[1].alpha

\* C30: a call of stochastic_prox_point, saga or problem without a params
\* argument uses the defaults derived from the loss of that call, whatever the
\* calls before it were; a call with a params dict keeps the keys the caller set
C30_Isolated ==
    SomeCall =>
        /\ LastCall.arg = <<>> => OwnDefaults(LastCall)
        /\ LastCall.arg # <<>> => CallerKeysKept(LastCall)

\* C30, the part on the caller's dict
C30_CallerKeysKept ==
    (SomeCall /\ LastCall.arg # <<>>) => CallerKeysKept(LastCall)

\* C30 for the first call of a session, and for saga called directly
C30_FirstCall ==
    (SomeCall /\ LastCall.arg = <<>> /\ (H.n_calls = 1 \/ LastCall.fn = "saga"))
        => OwnDefaults(LastCall)

\* a call with the caller's dict after a call that filled the default dict:
\* the caller's keys are kept and the missing ones come from this call's loss
C30_CallerDictAfterDefaults ==
    /\ SomeCall /\ H.n_calls = 2
    /\ DOMAIN H.spp_default # {}
    /\ LastCall.fn = "stochastic_prox_point" /\ LastCall.arg # <<>>
    /\ LastCall.f # TwoSamples
    /\ LastCall.params.batch_size = get_default_spp_params(LastCall.f).batch_size
    /\ LastCall.params.alpha = LastCall.arg[1].alpha

\* a second call without params on another loss runs with the first loss's step size
C30_CarriedOver ==
    /\ SomeCall /\ H.n_calls = 2 /\ LastCall.arg = <<>>
    /\ LastCall.alpha # StepUsed(LastCall.solver, LastCall.f,
                                 Updated(LastCall.solver, LastCall.f, EmptyDict))

====
